---------------------------- MODULE Spec2Model ----------------------------
(***************************************************************************)
(* Dependency-security remediation subsystem of GlossiaApp.                *)
(*                                                                         *)
(*   scripts/security/dependency-manager.mjs    scanner, analyzer,         *)
(*                                              update orchestrator        *)
(*   scripts/security/aikido-branch-manager.mjs branch lifecycle manager   *)
(*                                                                         *)
(* The module holds several specifications over one set of variables:      *)
(*   SpecAnalyze  analyzeVulnerability applied to one advisory             *)
(*   SpecScore    calculateSecurityScore applied to a growing unit         *)
(*   SpecScan     scanVulnerabilities / checkOutdatedPackages on one       *)
(*                outcome of the package manager                           *)
(*   Spec         one run of main() of the dependency manager              *)
(*   SpecMerge    calls of mergeAikidoBranch on a git repository           *)
(* Variables a specification does not use keep their idle value.           *)
(***************************************************************************)
EXTENDS Integers, Sequences, FiniteSets, TLC

VARIABLES
    \* ---- analyzer harness (SpecAnalyze, SpecScore)
    analysis,        \* the analyzeVulnerability calls made: <<>> or one record
    scoreVulns,      \* Object.values(vulns) handed to calculateSecurityScore
    scoreOutdated,   \* the outdated object handed to calculateSecurityScore
    score,           \* result of the last calculateSecurityScore call
    scanCall,        \* the scanner calls made: <<>> or one record
    applyCall,       \* the applyUpdates calls made: <<>> or one record
    \* ---- one run of the dependency manager (Spec)
    argv,            \* the command-line flags of the run
    excludePackages, \* SECURITY_CONFIG.excludePackages
    manifestFiles,   \* the package.json files on disk, by unit name
    reportsDir,      \* whether the reports directory exists on disk
    reportFiles,     \* the report documents written to disk, oldest first
    fsLog,           \* every mutating filesystem call made, oldest first
    commands,        \* every Command Runner invocation, oldest first
    testLog,         \* the dry-run log
    updatedLog,      \* the "Updated <package> to <version>" console lines
    packages,        \* main: the units whose manifest was found, in order
    scanResults,     \* main: scan result by unit name
    updateResults,   \* main: what updateDependencies returned, by unit name
    prompts,         \* the questions put to the operator, oldest first
    errorLog,        \* the failures written with console.error, oldest first
    warnLog,         \* the scan warnings written with console.warn, when kept
    pc,              \* main: the statement the run is at
    \* ---- the git repository and the branch manager (SpecMerge)
    currentBranch,   \* git branch --show-current
    mergeHead,       \* MERGE_HEAD: <<>>, or the branch of a merge in progress
    mergedInto,      \* by branch, the security branches merged into it
    localBranches,   \* the local security branches
    mergeLog,        \* the mergeAikidoBranch calls made, oldest first
    \* ---- the branch listing and the interactive console (SpecConsole)
    remoteBranches,  \* the lines of `git branch -r`, in order
    listing,         \* what listSecurityBranches printed: <<>> or one record
    securityBranches,\* this.securityBranches of the console
    autoMerged,      \* the merges of the last autoMergeSafeBranches, in order
    pendingFixes,    \* this.pendingFixes of the console
    auditSource,     \* what `npm audit --json` does in the project root
    reportSource,    \* the latest aikido report in reports/: <<>> or one
    menuChoice,      \* the main-menu option selected last
    consolePc,       \* where the console session is
    \* ---- the notification manager (SpecNotify)
    notifyConfig,    \* NOTIFICATION_CONFIG, as read from the environment
    emailTransporter,\* this.emailTransporter: FALSE is null
    verifyState,     \* where initializeTransporter and its verify() are
    alert,           \* the alert handed to sendSecurityAlert: <<>> or one
    channels,        \* by channel, where its send function is
    deliveries,      \* the delivery attempts made, oldest first
    sendResult       \* the promise sendSecurityAlert returned

analyzerVars == <<analysis, scoreVulns, scoreOutdated, score, scanCall, applyCall>>

dmVars == <<argv, excludePackages, manifestFiles, reportsDir, reportFiles, fsLog,
            commands, testLog, updatedLog, packages, scanResults, updateResults,
            prompts, errorLog, warnLog, pc>>

gitVars == <<currentBranch, mergeHead, mergedInto, localBranches, mergeLog>>

consoleVars == <<remoteBranches, listing, securityBranches, autoMerged,
                 pendingFixes, auditSource, reportSource, menuChoice, consolePc>>

notifyVars == <<notifyConfig, emailTransporter, verifyState, alert, channels,
                deliveries, sendResult>>

vars == <<analyzerVars, dmVars, gitVars, consoleVars, notifyVars>>

-----------------------------------------------------------------------------
(* Bounds of the model *)

\* longest vulnerability list handed to calculateSecurityScore
MaxVulns == 3
\* largest number of outdated packages handed to calculateSecurityScore
MaxOutdated == 16
\* oldest advisory handed to analyzeVulnerability, in days
MaxElapsedDays == 367
\* most vulnerabilities the audits of one run of main report, over all units
MaxRunVulns == 1
\* most outdated entries the outdated checks of one run report, over all units
MaxRunOutdated == 1
\* most findings in the output of one package-manager call of SpecScan
MaxScanFindings == 2
MaxPlanVulns == 2
MaxPlanOutdated == 1
\* most vulnerabilities of one unit in a report
MaxReportFindings == 1
\* most calls of mergeAikidoBranch in one behaviour
MaxMergeCalls == 2
\* most remote branches of the repository the branch tools run on
MaxRemoteBranches == 2
\* longest this.pendingFixes of a console session
MaxPendingFixes == 4
\* most entries in the output of one npm audit of the console
MaxConsoleFindings == 2

-----------------------------------------------------------------------------
(* JavaScript values *)

Null == "null"
\* a property that is absent from a parsed JSON object
Undefined == "undefined"

\* JS  x || d  on a string-or-undefined value
OrElse(x, d) == IF x = Undefined \/ x = "" THEN d ELSE x

Max(a, b) == IF a >= b THEN a ELSE b
Min(a, b) == IF a <= b THEN a ELSE b

-----------------------------------------------------------------------------
(* dependency-manager.mjs: configuration *)

\* SECURITY_CONFIG.maxAge / autoUpdateLevels (excludePackages is state, below)
SECURITY_CONFIG ==
    [ maxAge |-> [critical |-> 7, high |-> 30, moderate |-> 90, low |-> 365],
      autoUpdateLevels |-> {"critical", "high"} ]

Severities == {"critical", "high", "moderate", "low"}

\* Time is counted in hours; 1000 * 60 * 60 * 24 ms are this many hours.
HoursPerDay == 24

(* An advisory as parsed from the audit JSON.  `created` is the set holding  *)
(* the number of hours between the advisory's date and Date.now(), or the    *)
(* empty set when the property is absent.                                    *)
VulnData(severity, created, module_name, patched_versions) ==
    [ severity |-> severity, created |-> created,
      module_name |-> module_name, patched_versions |-> patched_versions ]

-----------------------------------------------------------------------------
(* dependency-manager.mjs: Vulnerability Analyzer *)

\* Date.now() - publishedDate.getTime(), in hours; a missing `created` makes
\* publishedDate = new Date(), i.e. now.
ElapsedHours(vulnData) ==
    IF vulnData.created = {} THEN 0 ELSE CHOOSE h \in vulnData.created : TRUE

\* Math.floor(elapsed / one day)
AgeInDays(vulnData) == ElapsedHours(vulnData) \div HoursPerDay

\* SECURITY_CONFIG.maxAge[severity] || SECURITY_CONFIG.maxAge.low
MaxAgeOf(severity) ==
    IF severity \in DOMAIN SECURITY_CONFIG.maxAge
    THEN SECURITY_CONFIG.maxAge[severity]
    ELSE SECURITY_CONFIG.maxAge.low

IsStale_AtCeiling(ageInDays, maxAge) == ageInDays >= maxAge

\* const isStale = ageInDays > maxAge
IsStale(ageInDays, maxAge) == ageInDays > maxAge

analyzeVulnerability(vulnId, vulnData) ==
    LET severity == OrElse(vulnData.severity, "unknown")
        ageInDays == AgeInDays(vulnData)
        maxAge == MaxAgeOf(severity)
    IN  [ id |-> vulnId,
          severity |-> severity,
          ageInDays |-> ageInDays,
          maxAge |-> maxAge,
          isStale |-> IsStale(ageInDays, maxAge),
          shouldAutoUpdate |-> severity \in SECURITY_CONFIG.autoUpdateLevels,
          module |-> OrElse(vulnData.module_name, "unknown"),
          patched |-> OrElse(vulnData.patched_versions, "none") ]

SeverityDeduction_LowAdds(severity) ==
    CASE severity = "critical" -> 25
      [] severity = "high" -> 15
      [] severity = "moderate" -> 8
      [] severity = "low" -> -3
      [] OTHER -> 0

\* the switch on analysis.severity
SeverityDeduction(severity) ==
    CASE severity = "critical" -> 25
      [] severity = "high" -> 15
      [] severity = "moderate" -> 8
      [] severity = "low" -> 3
      [] OTHER -> 0

OutdatedDeduction_NoCap(outdatedCount) == outdatedCount * 2

\* Math.min(outdatedCount * 2, 30)
OutdatedDeduction(outdatedCount) == Min(outdatedCount * 2, 30)

\* the forEach over Object.values(vulns), in enumeration order
RECURSIVE DeductVulns(_, _)
DeductVulns(s, vs) ==
    IF vs = <<>> THEN s
    ELSE LET a == analyzeVulnerability(Undefined, Head(vs))
             s1 == s - SeverityDeduction(a.severity)
             s2 == IF a.isStale THEN s1 - 10 ELSE s1
         IN  DeductVulns(s2, Tail(vs))

ScoreResult_NoFloor(s) == s

\* Math.max(0, Math.round(score)); score is an integer here, which
\* Math.round leaves as it is
ScoreResult(s) == Max(0, s)

\* vulns: the values of the vulnerabilities object in enumeration order;
\* outdated: the outdated object (a function on its keys)
calculateSecurityScore(vulns, outdated) ==
    LET afterVulns == DeductVulns(100, vulns)
        outdatedCount == Cardinality(DOMAIN outdated)
    IN  ScoreResult(afterVulns - OutdatedDeduction(outdatedCount))

-----------------------------------------------------------------------------
(* aikido-branch-manager.mjs: the repository *)

(* A branch name is the sequence of its words and separators, so that a     *)
(* substring test is a test on sub-sequences: origin/aikido/fix-lodash is   *)
(* <<"origin", "/", "aikido", "/", "fix", "-", "lodash">>.                  *)
Includes(name, pattern) ==
    \E i \in 1..(Len(name) - Len(pattern) + 1) :
        SubSeq(name, i, i + Len(pattern) - 1) = pattern

\* name.replace(pattern, ''): the first occurrence is removed
Replace(name, pattern) ==
    IF ~Includes(name, pattern) THEN name
    ELSE LET i == CHOOSE k \in 1..(Len(name) - Len(pattern) + 1) :
                    /\ SubSeq(name, k, k + Len(pattern) - 1) = pattern
                    /\ \A j \in 1..(k - 1) :
                           SubSeq(name, j, j + Len(pattern) - 1) # pattern
         IN  SubSeq(name, 1, i - 1) \o SubSeq(name, i + Len(pattern), Len(name))

AikidoFixLodash == <<"origin", "/", "aikido", "/", "fix", "-", "lodash">>
DependabotAxios == <<"dependabot", "/", "npm_and_yarn", "/", "axios", "-", "1.2.3">>
SecurityManualPatch == <<"security", "/", "manual", "-", "patch">>

\* the branches mergeAikidoBranch is called on
SecurityBranches == {AikidoFixLodash, DependabotAxios, SecurityManualPatch}

\* the branches a checkout can be on
WorkBranches == {"main", "develop", "feature"}

\* branchName.replace('origin/', '')
WithoutOrigin(branchName) == Replace(branchName, <<"origin", "/">>)

GitIdle ==
    /\ currentBranch = "main"
    /\ mergeHead = <<>>
    /\ mergedInto = [b \in WorkBranches |-> {}]
    /\ localBranches = {}
    /\ mergeLog = <<>>

-----------------------------------------------------------------------------
(* aikido-branch-manager.mjs: mergeAikidoBranch *)

MergeOutcomes == {"merged", "conflict", "error"}

(* What `git merge <branch> --no-ff` does to the repository.  On a conflict *)
(* git exits non-zero and leaves the merge in progress: MERGE_HEAD is set   *)
(* and the working tree holds the conflict markers.  It refuses to start    *)
(* while another merge is in progress.                                      *)
GitMerge(repo, branchName, outcome) ==
    IF repo.mergeHead # <<>> THEN [repo EXCEPT !.ok = FALSE]
    ELSE IF branchName \in repo.mergedInto[repo.currentBranch]
         THEN [repo EXCEPT !.ok = TRUE]   \* already up to date
    ELSE CASE outcome = "merged" ->
                [repo EXCEPT !.ok = TRUE,
                             !.mergedInto[repo.currentBranch] = @ \cup {branchName}]
           [] outcome = "conflict" ->
                [repo EXCEPT !.ok = FALSE, !.mergeHead = <<branchName>>]
           [] OTHER -> [repo EXCEPT !.ok = FALSE]

\* `git checkout main`; refused while a merge is in progress
GitCheckoutMain(repo, ok) ==
    IF repo.mergeHead # <<>> \/ ~ok THEN [repo EXCEPT !.ok = FALSE]
    ELSE [repo EXCEPT !.ok = TRUE, !.currentBranch = "main"]

\* `git branch -d <name>`
GitBranchDelete(repo, name) ==
    IF name \in repo.localBranches
    THEN [repo EXCEPT !.ok = TRUE, !.localBranches = @ \ {name}]
    ELSE [repo EXCEPT !.ok = FALSE]

Repo ==
    [ currentBranch |-> currentBranch, mergeHead |-> mergeHead,
      mergedInto |-> mergedInto, localBranches |-> localBranches, ok |-> TRUE ]

\* the catch block of the merge: console.error, console.log, return false
MergeFailed(repo) == repo

(* The call's result: what it returned, the repository it left, and whether *)
(* and on which branch `git merge` was executed.                            *)
MergeResult(ret, repo, executed) ==
    [ ret |-> ret, repo |-> repo, executed |-> executed, on |-> repo.currentBranch,
      cleanup |-> <<>> ]

BranchCleanup_Unasked(repo, branchName, deleteBranch) ==
    LET name == WithoutOrigin(branchName)
        after == GitBranchDelete(repo, name)
    IN  [ repo |-> after,
          cleanup |-> <<[command |-> "git branch -d", name |-> name,
                         ok |-> after.ok]>> ]

\* `Delete the merged branch?`: on 'y', `git branch -d` on the name without
\* its origin/ prefix; a failure is logged as a note
BranchCleanup(repo, branchName, deleteBranch) ==
    LET name == WithoutOrigin(branchName)
        after == GitBranchDelete(repo, name)
    IN  IF deleteBranch = "y"
        THEN [ repo |-> after,
               cleanup |-> <<[command |-> "git branch -d", name |-> name,
                              ok |-> after.ok]>> ]
        ELSE [repo |-> repo, cleanup |-> <<>>]

\* switchToMain, confirmMerge, deleteBranch: the operator's answers;
\* checkoutOk, pullOk, outcome: what the git commands did
mergeAikidoBranch(branchName, switchToMain, checkoutOk, pullOk, confirmMerge, outcome, deleteBranch) ==
    LET repo0 == Repo
        switching == /\ repo0.currentBranch # "main"
                     /\ repo0.currentBranch # "develop"
                     /\ switchToMain = "y"
        repo1 == IF switching THEN GitCheckoutMain(repo0, checkoutOk) ELSE repo0
        switchFailed == switching /\ (~repo1.ok \/ ~pullOk)
        repo2 == GitMerge(repo1, branchName, outcome)
        cleaned == BranchCleanup(repo2, branchName, deleteBranch)
        repo3 == cleaned.repo
    IN  IF switchFailed THEN MergeResult(FALSE, repo1, FALSE)
        ELSE IF confirmMerge # "y" THEN MergeResult(FALSE, repo1, FALSE)
        ELSE IF repo2.ok
             THEN [MergeResult(TRUE, repo3, TRUE) EXCEPT !.cleanup = cleaned.cleanup]
        ELSE MergeResult(FALSE, MergeFailed(repo2), TRUE)

-----------------------------------------------------------------------------
(* aikido-branch-manager.mjs: listSecurityBranches *)

\* the remote branches a repository can have, in the order git prints them
RemoteOrder ==
    << AikidoFixLodash,
       <<"origin", "/", "aikido", "/", "dependabot", "/", "bump">>,
       <<"origin", "/", "aikido", "/", "patch", "-", "minimist">>,
       <<"origin", "/", "dependabot", "/", "npm_and_yarn", "/", "aikido", "-", "sdk", "-", "2.0.0">>,
       <<"origin", "/", "dependabot", "/", "npm_and_yarn", "/", "axios", "-", "1.2.3">>,
       <<"origin", "/", "feature", "/", "login">>,
       <<"origin", "/", "security", "/", "manual", "-", "patch">>,
       <<"origin", "/", "security", "/", "upgrade", "-", "express">>,
       <<"origin", "/", "vulnerability", "/", "xss">> >>

RemoteNames == {RemoteOrder[i] : i \in DOMAIN RemoteOrder}

\* the local branches, in the order git prints them
LocalOrder == <<DependabotAxios, SecurityManualPatch>>

\* the filter of both listings
IsSecurityName(branch) ==
    \/ Includes(branch, <<"aikido">>)
    \/ Includes(branch, <<"dependabot">>)
    \/ Includes(branch, <<"security">>)
    \/ Includes(branch, <<"vulnerability">>)

\* [...new Set(branches)]: the first occurrence of each name, in order
RECURSIVE Distinct(_)
Distinct(branches) ==
    IF branches = <<>> THEN <<>>
    ELSE LET front == Distinct(SubSeq(branches, 1, Len(branches) - 1))
             last == branches[Len(branches)]
         IN  IF \E i \in DOMAIN front : front[i] = last THEN front
             ELSE Append(front, last)

\* allBranches.filter(b => b.includes('dependabot'))
IsDependabotListed(b) == Includes(b, <<"dependabot">>)

(* remote, local: the lines of `git branch -r` and of `git branch`, the `* ` *)
(* of the current branch removed; gitOk: neither command failed.  The       *)
(* result holds the branches returned and the three groups printed.         *)
listSecurityBranches(remote, local, gitOk) ==
    LET found == SelectSeq(remote, IsSecurityName)
        localSecurityBranches == SelectSeq(local, IsSecurityName)
        allBranches == Distinct(found \o localSecurityBranches)
    IN  IF ~gitOk \/ Len(allBranches) = 0
        THEN [ allBranches |-> <<>>, aikidoBranches |-> <<>>,
               dependabotBranches |-> <<>>, otherSecurityBranches |-> <<>> ]
        ELSE [ allBranches |-> allBranches,
               aikidoBranches |->
                   SelectSeq(allBranches, LAMBDA b : Includes(b, <<"aikido">>)),
               dependabotBranches |-> SelectSeq(allBranches, IsDependabotListed),
               otherSecurityBranches |->
                   SelectSeq(allBranches,
                       LAMBDA b : ~Includes(b, <<"aikido">>)
                                  /\ ~Includes(b, <<"dependabot">>)) ]

-----------------------------------------------------------------------------
(* interactive-aikido-manager.mjs: branches *)

\* branch.includes('aikido/') ? 'aikido' :
\* branch.includes('dependabot/') ? 'dependabot' : 'security'
BranchType(branch) ==
    IF Includes(branch, <<"aikido", "/">>) THEN "aikido"
    ELSE IF Includes(branch, <<"dependabot", "/">>) THEN "dependabot"
    ELSE "security"

\* remote: the lines of `git branch -r`; gitOk: the command did not fail
loadSecurityBranches(remote, gitOk) ==
    LET kept == SelectSeq(remote,
                    LAMBDA b : \/ Includes(b, <<"security", "/">>)
                               \/ Includes(b, <<"aikido", "/">>)
                               \/ Includes(b, <<"dependabot", "/">>))
        branches == [i \in DOMAIN kept |-> Replace(kept[i], <<"origin", "/">>)]
    IN  IF ~gitOk THEN <<>>
        ELSE [i \in DOMAIN branches |->
                [ name |-> branches[i], type |-> BranchType(branches[i]),
                  status |-> "pending" ]]

IsSafeBranch_Any(branch) == TRUE

\* branch.type === 'dependabot' || branch.name.includes('patch')
IsSafeBranch(branch) ==
    branch.type = "dependabot" \/ Includes(branch.name, <<"patch">>)

(* The loop over safeBranches: `git merge origin/<name>` for each, a failure *)
(* logged and the loop continued.  st: [repo, log]; the log records, for     *)
(* each merge run, the branch, the branch checked out and whether a merge    *)
(* was in progress when it started.                                          *)
RECURSIVE AutoMergeLoop(_, _, _)
AutoMergeLoop(st, safeBranches, outcomes) ==
    IF safeBranches = <<>> THEN st
    ELSE LET name == <<"origin", "/">> \o Head(safeBranches).name
             after == GitMerge(st.repo, name, Head(outcomes))
         IN  AutoMergeLoop(
                 [ repo |-> after,
                   log |-> Append(st.log,
                       [ branch |-> Head(safeBranches).name,
                         type |-> Head(safeBranches).type,
                         on |-> st.repo.currentBranch,
                         inProgress |-> st.repo.mergeHead # <<>>,
                         ok |-> after.ok ]) ],
                 Tail(safeBranches), Tail(outcomes))

\* branches: this.securityBranches
SafeBranches(branches) == SelectSeq(branches, IsSafeBranch)

\* outcomes: what each `git merge` of the loop did
autoMergeSafeBranches(branches, outcomes) ==
    AutoMergeLoop([repo |-> Repo, log |-> <<>>], SafeBranches(branches), outcomes)

ConsoleIdle ==
    /\ remoteBranches = <<>>
    /\ listing = <<>>
    /\ securityBranches = <<>>
    /\ autoMerged = <<>>
    /\ pendingFixes = <<>>
    /\ auditSource = [status |-> 0, stdout |-> [kind |-> "empty", data |-> <<>>]]
    /\ reportSource = <<>>
    /\ menuChoice = "none"
    /\ consolePc = "idle"

-----------------------------------------------------------------------------
(* notification-manager.mjs: SecurityNotificationManager *)

ChannelNames == {"mail", "push", "slack"}

\* no send function has been called
ChannelsIdle == [c \in ChannelNames |-> "idle"]

NotifyIdle ==
    /\ notifyConfig = <<>>
    /\ emailTransporter = FALSE
    /\ verifyState = "idle"
    /\ alert = <<>>
    /\ channels = ChannelsIdle
    /\ deliveries = <<>>
    /\ sendResult = "none"

(* NOTIFICATION_CONFIG: the mail channel is enabled unless switched off and *)
(* needs SMTP credentials; push and chat webhook are enabled on request,    *)
(* the webhook needs its URL.  team: SECURITY_TEAM_EMAILS, split.           *)
NotifyConfigs ==
    [ emailEnabled : BOOLEAN, credentials : BOOLEAN,
      team : {<<>>, <<"dev1@figmail.app", "dev2@figmail.app">>},
      browserEnabled : BOOLEAN, slackEnabled : BOOLEAN, webhook : BOOLEAN ]

Admin == "admin@figmail.app"

Recipients_Everyone(severity) == <<Admin>> \o notifyConfig.team

\* severity === 'critical' ? [admin, ...team] : [admin]
Recipients(severity) ==
    IF severity = "critical" THEN <<Admin>> \o notifyConfig.team
    ELSE <<Admin>>

initializeTransporter_NoCredentialCheck(created) ==
    IF ~notifyConfig.emailEnabled \/ ~created
    THEN [emailTransporter |-> FALSE, verifyState |-> "none"]
    ELSE [emailTransporter |-> TRUE, verifyState |-> "pending"]

(* initializeTransporter up to its await: created tells whether             *)
(* nodemailer.createTransporter returned a transporter or threw.  The       *)
(* transporter is stored before verify() is awaited.                        *)
initializeTransporter(created) ==
    IF ~notifyConfig.emailEnabled \/ ~notifyConfig.credentials \/ ~created
    THEN [emailTransporter |-> FALSE, verifyState |-> "none"]
    ELSE [emailTransporter |-> TRUE, verifyState |-> "pending"]

\* sendEmailAlert up to its await: skipped, or sendMail called
sendEmailAlert(a) ==
    IF ~emailTransporter THEN [state |-> "skipped", attempts |-> <<>>]
    ELSE [ state |-> "awaiting",
           attempts |-> << [ channel |-> "mail", to |-> Recipients(a.severity),
                             severity |-> a.severity,
                             verify |-> verifyState ] >> ]

\* sendBrowserNotification: the notification is prepared and logged only
sendBrowserNotification(a) ==
    IF ~notifyConfig.browserEnabled THEN [state |-> "skipped", attempts |-> <<>>]
    ELSE [state |-> "prepared", attempts |-> <<>>]

\* sendSlackAlert up to its await: skipped, or fetch called
sendSlackAlert(a) ==
    IF ~notifyConfig.slackEnabled \/ ~notifyConfig.webhook
    THEN [state |-> "skipped", attempts |-> <<>>]
    ELSE [ state |-> "awaiting",
           attempts |-> << [ channel |-> "slack", to |-> <<"webhook">>,
                             severity |-> a.severity,
                             verify |-> verifyState ] >> ]

ChannelPromise_Rethrow(state) ==
    CASE state = "awaiting" -> "pending"
      [] state = "failed" -> "rejected"
      [] OTHER -> "fulfilled"

\* the promise of a send function: its catch block logs the failure
ChannelPromise(state) ==
    IF state = "awaiting" THEN "pending" ELSE "fulfilled"

\* Promise.all over the three send functions
PromiseAll(states) ==
    IF \E c \in ChannelNames : ChannelPromise(states[c]) = "rejected"
    THEN "rejected"
    ELSE IF \A c \in ChannelNames : ChannelPromise(states[c]) = "fulfilled"
         THEN "fulfilled"
    ELSE "pending"

\* what a delivery in flight can come to: delivered, or refused (rejected
\* send, non-OK HTTP response, network error)
DeliveryOutcomes == {"sent", "failed"}

-----------------------------------------------------------------------------
(* dependency-manager.mjs: command line and paths *)

isDryRun == "--dry-run" \in argv
isAutoUpdate == "--auto-update" \in argv
isForceUpdate == "--force-update" \in argv
scanOnly == "--scan" \in argv
checkOutdated == "--check-outdated" \in argv
generateReport == "--report" \in argv
isHelp == "--help" \in argv

\* the keys of packagePaths, in Object.entries order
packagePaths == <<"root", "client", "server">>

\* the package names that occur in manifests and findings, in key order
PackageOrder == <<"P", "Q">>
Packages == {PackageOrder[i] : i \in DOMAIN PackageOrder}

HasDependency_Always(map, package) == TRUE

\* a dependency map has a truthy entry for the package
HasDependency(map, package) == package \in DOMAIN map /\ map[package] # ""

-----------------------------------------------------------------------------
(* dependency-manager.mjs: Command Runner *)

(* What a spawned process did: its exit status and what it wrote to stdout. *)
(* stdout is JSON text (kind "json", data: the parsed value), text that is  *)
(* not JSON (kind "garbage") or nothing (kind "empty").                      *)
Proc(status, kind, data) ==
    [status |-> status, stdout |-> [kind |-> kind, data |-> data]]

\* execSync returns stdout on exit status 0 and throws otherwise; the catch
\* keeps the error message only.  output: <<>> is null, <<stdout>> a string.
execCommand(proc) ==
    IF proc.status = 0
    THEN [success |-> TRUE, output |-> <<proc.stdout>>, error |-> Null]
    ELSE [success |-> FALSE, output |-> <<>>, error |-> "Command failed"]

-----------------------------------------------------------------------------
(* dependency-manager.mjs: Manifest Scanner *)

scanVulnerabilities_KeepOutput(proc) == [vulnerabilities |-> proc.stdout.data]

\* proc: what `npm audit --json` did in the unit's directory
scanVulnerabilities(proc) ==
    LET result == execCommand(proc)
    IN  IF ~result.success
        THEN [vulnerabilities |-> <<>>]
        ELSE IF result.output[1].kind = "json"
             THEN [vulnerabilities |-> result.output[1].data]
             ELSE [vulnerabilities |-> <<>>]

\* proc: what `npm outdated --json` did in the unit's directory
checkOutdatedPackages(proc) ==
    LET result == execCommand(proc)
    IN  IF result.output = <<>> \/ result.output[1].kind = "empty"
        THEN <<>>
        ELSE IF result.output[1].kind = "json"
             THEN result.output[1].data
             ELSE <<>>

-----------------------------------------------------------------------------
(* dependency-manager.mjs: Update Orchestrator *)

SecurityUpdate(a) ==
    [ type |-> "security", package |-> a.module, severity |-> a.severity,
      current |-> "unknown", patched |-> a.patched,
      wanted |-> Undefined, latest |-> Undefined ]

OutdatedUpdate(packageName, packageInfo) ==
    [ type |-> "outdated", package |-> packageName, severity |-> Undefined,
      current |-> packageInfo.current, patched |-> Undefined,
      wanted |-> packageInfo.wanted, latest |-> packageInfo.latest ]

SkipInAutoMode_Never(mode, a) == FALSE

\* if (mode === 'auto' && !analysis.shouldAutoUpdate) continue
SkipInAutoMode(mode, a) == mode = "auto" /\ ~a.shouldAutoUpdate

\* if (SECURITY_CONFIG.excludePackages.includes(analysis.module)) continue
IsExcluded(module) == module \in excludePackages

\* the loop over Object.entries(vulns); the vulnerability's key is its index
SecurityUpdates(vulns, mode) ==
    LET analyzed == [i \in DOMAIN vulns |-> analyzeVulnerability(i, vulns[i])]
        kept == SelectSeq(analyzed,
                    LAMBDA a : ~SkipInAutoMode(mode, a) /\ ~IsExcluded(a.module))
    IN  [i \in DOMAIN kept |-> SecurityUpdate(kept[i])]

\* the loop over Object.entries(outdated)
OutdatedUpdates(outdated, mode) ==
    IF mode = "auto" THEN <<>>
    ELSE LET keys == SelectSeq(PackageOrder, LAMBDA k : k \in DOMAIN outdated)
         IN  [i \in DOMAIN keys |-> OutdatedUpdate(keys[i], outdated[keys[i]])]

SecurityOnly(updates) == SelectSeq(updates, LAMBDA u : u.type = "security")

SecurityTarget_Caret(update) == "^" \o update.patched

\* const targetVersion = update.patched
SecurityTarget(update) == update.patched

\* `^${update.latest}`  (targetVersion = update.wanted || update.latest is
\* computed and not used)
OutdatedConstraint(update) == "^" \o update.latest

Truthy(x) == x # Undefined /\ x # ""

\* map[key] = value on a JavaScript object: the key is added when absent
Assign(map, key, value) == (key :> value) @@ map

\* one iteration of the loop over updates in applyUpdates;
\* st: [content, hasChanges, log]
ApplyOne(st, update) ==
    LET isSecurity == /\ update.type = "security"
                      /\ Truthy(update.patched)
                      /\ update.patched # "none"
        isOutdated == /\ ~isSecurity
                      /\ update.type = "outdated"
                      /\ Truthy(update.latest)
        target == IF isSecurity THEN SecurityTarget(update)
                  ELSE OutdatedConstraint(update)
        deps == st.content.dependencies
        dev == st.content.devDependencies
        inDeps == HasDependency(deps, update.package)
        inDev == HasDependency(dev, update.package)
        line(field) == [update |-> update, version |-> target, field |-> field]
    IN  IF ~(isSecurity \/ isOutdated) THEN st
        ELSE [ content |->
                 [ dependencies |->
                     IF inDeps THEN Assign(deps, update.package, target)
                     ELSE deps,
                   devDependencies |->
                     IF inDev THEN Assign(dev, update.package, target)
                     ELSE dev ],
               hasChanges |-> st.hasChanges \/ inDeps \/ inDev,
               log |-> st.log
                       \o (IF inDeps THEN <<line("dependencies")>> ELSE <<>>)
                       \o (IF inDev THEN <<line("devDependencies")>> ELSE <<>>) ]

RECURSIVE ApplyAll(_, _)
ApplyAll(st, updates) ==
    IF updates = <<>> THEN st
    ELSE ApplyAll(ApplyOne(st, Head(updates)), Tail(updates))

(* What a call changes outside itself: its return value, the unit's manifest *)
(* file afterwards, what it appends to the logs, and what it asked.          *)
Effect(ret, file, fsCalls, procs, dry, lines) ==
    [ ret |-> ret, file |-> file, fsLog |-> fsCalls, commands |-> procs,
      testLog |-> dry, updatedLog |-> lines, prompts |-> <<>>,
      errors |-> <<>> ]

\* console.error(`Failed to write ...`) and console.error('npm install failed:')
Reported(what, unit, effect) ==
    [effect EXCEPT !.errors = @ \o <<[failed |-> what, unit |-> unit]>>]

\* await ask(question) ahead of what the rest of the call does
Asked(questions, effect) == [effect EXCEPT !.prompts = questions \o @]

\* const choice = await ask('Choose update mode [a/s/i/n]: ')
ModePrompt(unit, choice) ==
    [unit |-> unit, question |-> "mode", package |-> Undefined, answer |-> choice]

\* const choice = await ask(`Update ${update.package}? [y/n/q]: `)
EntryPrompt(unit, update, choice) ==
    [unit |-> unit, question |-> "entry", package |-> update.package,
     answer |-> choice]

NoEffect(unit, ret) == Effect(ret, manifestFiles[unit], <<>>, <<>>, <<>>, <<>>)

WriteCall(path, ok) == [op |-> "writeFile", path |-> path, ok |-> ok]
MkdirCall(path, ok) == [op |-> "mkdir", path |-> path, ok |-> ok]
Command(command, cwd) == [command |-> command, cwd |-> cwd]

\* the guard of the npm install step: if (!isDryRun) ... else testLog.push
InstallSuppressed == isDryRun

WriteSuppressed_Never == FALSE

\* the guard at the head of writePackageJson: if (isDryRun) ...
WriteSuppressed == isDryRun

\* pkg as getPackageJson read it, before the loop over updates
LoadedPackage(unit) ==
    [content |-> manifestFiles[unit], hasChanges |-> FALSE, log |-> <<>>]

WrittenContent_FirstEntry(unit, updates) ==
    ApplyOne(LoadedPackage(unit), Head(updates)).content

\* the pkg.content handed to writePackageJson, after the loop over updates
WrittenContent(unit, updates) == ApplyAll(LoadedPackage(unit), updates).content

InstallFailed_Rollback(unit, file) == manifestFiles[unit]

\* the else branch after `npm install`: console.error and return false; the
\* manifest stays as it was written
InstallFailed(unit, file) == file

\* writeOk: fs.writeFileSync does not throw; install: what `npm install` did
applyUpdates(unit, updates, writeOk, install) ==
    IF updates = <<>> THEN NoEffect(unit, TRUE)
    ELSE
    LET st == ApplyAll(LoadedPackage(unit), updates)
        lines == [i \in DOMAIN st.log |-> [unit |-> unit] @@ st.log[i]]
        \* writePackageJson(packageJsonPath, pkg.content)
        written == WriteSuppressed \/ writeOk
        file == IF ~WriteSuppressed /\ writeOk THEN WrittenContent(unit, updates)
                ELSE manifestFiles[unit]
        fsCalls == IF WriteSuppressed THEN <<>> ELSE <<WriteCall(unit, writeOk)>>
        dryWrite == IF WriteSuppressed THEN <<[would |-> "update", unit |-> unit]>>
                    ELSE <<>>
    IN  IF ~st.hasChanges THEN Effect(TRUE, manifestFiles[unit], <<>>, <<>>, <<>>, lines)
        ELSE IF ~written
             THEN Reported("write", unit,
                           Effect(FALSE, file, fsCalls, <<>>, dryWrite, lines))
        ELSE IF ~InstallSuppressed
             THEN LET installResult == execCommand(install)
                      e == Effect(installResult.success,
                                  IF installResult.success THEN file
                                  ELSE InstallFailed(unit, file),
                                  fsCalls,
                                  <<Command("npm install", unit)>>, dryWrite, lines)
                  IN  IF installResult.success THEN e
                      ELSE Reported("install", unit, e)
             ELSE Effect(TRUE, file, fsCalls, <<>>,
                         dryWrite \o <<[would |-> "install", unit |-> unit]>>, lines)

\* the updates answered 'y' before the first 'q'
RECURSIVE SelectedUpdates(_, _)
SelectedUpdates(updates, answers) ==
    IF updates = <<>> \/ Head(answers) = "q" THEN <<>>
    ELSE (IF Head(answers) = "y" THEN <<Head(updates)>> ELSE <<>>)
         \o SelectedUpdates(Tail(updates), Tail(answers))

\* the questions of the loop: one for each update up to the first 'q'
RECURSIVE EntryPrompts(_, _, _)
EntryPrompts(unit, updates, answers) ==
    IF updates = <<>> THEN <<>>
    ELSE <<EntryPrompt(unit, Head(updates), Head(answers))>>
         \o (IF Head(answers) = "q" THEN <<>>
             ELSE EntryPrompts(unit, Tail(updates), Tail(answers)))

interactiveUpdate_ApplyAll(unit, updates, answers, writeOk, install) ==
    Asked(EntryPrompts(unit, updates, answers),
          applyUpdates(unit, updates, writeOk, install))

\* answers: the operator's answer to each `Update <package>? [y/n/q]`
interactiveUpdate(unit, updates, answers, writeOk, install) ==
    LET selectedUpdates == SelectedUpdates(updates, answers)
    IN  Asked(EntryPrompts(unit, updates, answers),
              IF Len(selectedUpdates) > 0
              THEN applyUpdates(unit, selectedUpdates, writeOk, install)
              ELSE NoEffect(unit, TRUE))

Answers == {"y", "n", "q"}
Choices == {"a", "s", "i", "n"}

\* choice: the operator's answer to `Choose update mode [a/s/i/n]`
updateDependencies(unit, vulns, outdated, mode, choice, answers, writeOk, install) ==
    LET updates == SecurityUpdates(vulns, mode) \o OutdatedUpdates(outdated, mode)
    IN  IF Len(updates) = 0 THEN NoEffect(unit, TRUE)
        ELSE IF mode = "auto" \/ isAutoUpdate
             THEN applyUpdates(unit, SecurityOnly(updates), writeOk, install)
        ELSE IF mode = "force" \/ isForceUpdate
             THEN applyUpdates(unit, updates, writeOk, install)
        ELSE Asked(<<ModePrompt(unit, choice)>>,
               CASE choice = "a" -> applyUpdates(unit, updates, writeOk, install)
                 [] choice = "s" ->
                      applyUpdates(unit, SecurityOnly(updates), writeOk, install)
                 [] choice = "i" ->
                      interactiveUpdate(unit, updates, answers, writeOk, install)
                 [] OTHER -> NoEffect(unit, TRUE))

-----------------------------------------------------------------------------
(* dependency-manager.mjs: report *)

RECURSIVE SumSeq(_)
SumSeq(ns) == IF ns = <<>> THEN 0 ELSE Head(ns) + SumSeq(Tail(ns))

RoundedQuotient_Floor(a, b) == a \div b

\* Math.round(a / b) for a >= 0 and b > 0
RoundedQuotient(a, b) == (2 * a + b) \div (2 * b)

\* the report document built from scanResults, units in insertion order
ReportData(results, order) ==
    LET vulnsOf(u) == results[u].vulnerabilities
        scores == [i \in DOMAIN order |->
                     calculateSecurityScore(vulnsOf(order[i]), results[order[i]].outdated)]
        countOf(sev) ==
            SumSeq([i \in DOMAIN order |->
                Cardinality({j \in DOMAIN vulnsOf(order[i]) :
                    analyzeVulnerability(j, vulnsOf(order[i])[j]).severity = sev})])
        packageCount == Len(order)
    IN  [ packages |->
            [u \in DOMAIN results |->
               [ vulnerabilities |-> Len(vulnsOf(u)),
                 outdated |-> Cardinality(DOMAIN results[u].outdated),
                 score |-> calculateSecurityScore(vulnsOf(u), results[u].outdated) ]],
          summary |->
            [ totalVulnerabilities |->
                SumSeq([i \in DOMAIN order |-> Len(vulnsOf(order[i]))]),
              criticalVulnerabilities |-> countOf("critical"),
              highVulnerabilities |-> countOf("high"),
              moderateVulnerabilities |-> countOf("moderate"),
              lowVulnerabilities |-> countOf("low"),
              outdatedPackages |->
                SumSeq([i \in DOMAIN order |->
                          Cardinality(DOMAIN results[order[i]].outdated)]),
              overallScore |->
                IF packageCount > 0
                THEN RoundedQuotient(SumSeq(scores), packageCount)
                ELSE 100 ] ]

\* if (!isDryRun) fs.writeFileSync(reportFile, ...) else testLog.push(...)
ReportSuppressed == isDryRun

\* if (!fs.existsSync(reportsDir)) fs.mkdirSync(reportsDir, ...)
MkdirNeeded == ~reportsDir

(* fsOk: the filesystem calls of this report do not throw.  The result      *)
(* tells whether the call returned or threw, and what it left behind.       *)
generateSecurityReport(results, order, fsOk) ==
    LET reportData == ReportData(results, order)
        mkdir == IF MkdirNeeded THEN <<MkdirCall("reports", fsOk)>> ELSE <<>>
        dirAfter == reportsDir \/ (MkdirNeeded /\ fsOk)
        reached == ~MkdirNeeded \/ fsOk   \* the statements after mkdirSync run
        write == IF reached /\ ~ReportSuppressed
                 THEN <<WriteCall("report", fsOk)>> ELSE <<>>
    IN  [ returned |-> fsOk \/ (mkdir = <<>> /\ write = <<>>),
          reportsDir |-> dirAfter,
          reportFiles |-> IF write # <<>> /\ fsOk THEN <<reportData>> ELSE <<>>,
          fsLog |-> mkdir \o write,
          testLog |-> IF reached /\ ReportSuppressed
                      THEN <<[would |-> "report", unit |-> "reports"]>> ELSE <<>> ]

-----------------------------------------------------------------------------
(* dependency-manager.mjs: the inputs of one run *)

Flags == {"--dry-run", "--auto-update", "--force-update", "--scan",
          "--check-outdated", "--report"}

\* the advisories an audit lists in the model
MainVulnData ==
    { VulnData("critical", {}, "P", "2.0.0"),
      VulnData("low", {}, "P", "3.0.0"),
      VulnData("high", {}, "Q", Undefined) }

\* the entry `npm outdated` gives for a package
OutdatedInfoOf(package) ==
    IF package = "P"
    THEN [current |-> "1.0.0", wanted |-> "1.0.5", latest |-> "1.0.5"]
    ELSE [current |-> "1.0.0", wanted |-> "1.1.0", latest |-> "2.0.0"]

SeqsUpTo(S, n) == UNION {[1..k -> S] : k \in 0..n}

\* what `npm audit --json` can do: list advisories and exit 0, list one and
\* exit 1, print something that is not JSON, or fail to run
AuditProcs(budget) ==
    {Proc(0, "json", vs) : vs \in SeqsUpTo(MainVulnData, budget)}
    \cup {Proc(1, "json", <<v>>) : v \in {w \in MainVulnData : budget > 0}}
    \cup {Proc(0, "garbage", <<>>), Proc(1, "empty", <<>>)}

OutdatedObjects(budget) ==
    { [k \in D |-> OutdatedInfoOf(k)] :
        D \in {E \in SUBSET Packages : Cardinality(E) <= budget} }

OutdatedProcs(budget) ==
    {Proc(0, "json", o) : o \in OutdatedObjects(budget)}
    \cup {Proc(1, "json", o) : o \in OutdatedObjects(budget) \ {<<>>}}
    \cup {Proc(0, "garbage", <<>>), Proc(1, "empty", <<>>)}

InstallProcs == {Proc(0, "empty", <<>>), Proc(1, "empty", <<>>)}

RootManifest ==
    [dependencies |-> ("P" :> "1.0.0"), devDependencies |-> ("Q" :> "1.0.0")]
ClientManifest ==
    [dependencies |-> ("P" :> "2.0.0" @@ "Q" :> "1.0.0"), devDependencies |-> <<>>]
ServerManifest ==
    [dependencies |-> ("Q" :> "^2.0.0"), devDependencies |-> ("P" :> "1.0.0")]

\* the three manifests of the workspace
FullDisk ==
    "root" :> RootManifest @@ "client" :> ClientManifest @@ "server" :> ServerManifest

\* the manifests on disk when the run starts: none, one unit, two units
InitialDisks ==
    { <<>>,
      "server" :> ServerManifest,
      "root" :> RootManifest @@ "client" :> ClientManifest }

\* SECURITY_CONFIG.excludePackages: [] as shipped, and a list naming one
\* package, so that the skip the list controls acts
ExcludeConfigs == {{}, {"P"}}

\* the findings the scans of the run have returned so far
RunVulns ==
    SumSeq([i \in DOMAIN packages |->
        IF packages[i] \in DOMAIN scanResults
        THEN Len(scanResults[packages[i]].vulnerabilities) ELSE 0])
RunOutdated ==
    SumSeq([i \in DOMAIN packages |->
        IF packages[i] \in DOMAIN scanResults
        THEN Cardinality(DOMAIN scanResults[packages[i]].outdated) ELSE 0])

-----------------------------------------------------------------------------
(* dependency-manager.mjs: main *)

At(label, i) == [at |-> label, i |-> i]

DmIdle ==
    /\ argv = {}
    /\ excludePackages = {}
    /\ manifestFiles = <<>>
    /\ reportsDir = FALSE
    /\ reportFiles = <<>>
    /\ fsLog = <<>>
    /\ commands = <<>>
    /\ testLog = <<>>
    /\ updatedLog = <<>>
    /\ packages = <<>>
    /\ scanResults = <<>>
    /\ updateResults = <<>>
    /\ prompts = <<>>
    /\ errorLog = <<>>
    /\ warnLog = <<>>
    /\ pc = At("idle", 0)

Init ==
    /\ analysis = <<>>
    /\ scoreVulns = <<>>
    /\ scoreOutdated = <<>>
    /\ score = Null
    /\ scanCall = <<>>
    /\ applyCall = <<>>
    /\ argv \in (SUBSET Flags) \cup {{"--help"}}
    /\ manifestFiles \in InitialDisks
    \* the list is empty as shipped; the one-unit workspace is also run with
    \* a list that names a package
    /\ excludePackages \in (IF DOMAIN manifestFiles = {"server"}
                            THEN ExcludeConfigs ELSE {{}})
    \* the reports directory is looked at under --report only
    /\ reportsDir \in (IF "--report" \in argv THEN BOOLEAN ELSE {FALSE})
    /\ reportFiles = <<>>
    /\ fsLog = <<>>
    /\ commands = <<>>
    /\ testLog = <<>>
    /\ updatedLog = <<>>
    /\ packages = <<>>
    /\ scanResults = <<>>
    /\ updateResults = <<>>
    /\ prompts = <<>>
    /\ errorLog = <<>>
    /\ warnLog = <<>>
    /\ pc = At("main", 0)
    /\ GitIdle
    /\ ConsoleIdle
    /\ NotifyIdle

\* main up to the scan loop: --help, then the manifests that exist
MainStart ==
    /\ pc.at = "main"
    /\ LET found == SelectSeq(packagePaths, LAMBDA n : n \in DOMAIN manifestFiles)
       IN  IF isHelp THEN pc' = At("done", 0) /\ UNCHANGED packages
           ELSE /\ packages' = found
                /\ pc' = IF Len(found) = 0 THEN At("exit1", 0) ELSE At("scan", 1)
    /\ UNCHANGED <<argv, excludePackages, manifestFiles, reportsDir, reportFiles,
                   fsLog, commands, testLog, updatedLog, scanResults,
                   updateResults, prompts, errorLog, warnLog>>
    /\ UNCHANGED analyzerVars
    /\ UNCHANGED gitVars
    /\ UNCHANGED consoleVars
    /\ UNCHANGED notifyVars

\* console.warn(`npm audit failed in ...`) and console.warn(`Failed to parse
\* audit results for ...`) of scanVulnerabilities
ScanWarnings(unit, proc) ==
    IF ~execCommand(proc).success
    THEN <<[warning |-> "npm audit failed", unit |-> unit]>>
    ELSE IF proc.stdout.kind # "json"
         THEN <<[warning |-> "failed to parse audit results", unit |-> unit]>>
    ELSE <<>>

\* one iteration of the scan loop; keep: the warnings are kept in warnLog
ScanIteration(keep) ==
    /\ pc.at = "scan"
    /\ LET unit == packages[pc.i]
       IN  \E audit \in AuditProcs(MaxRunVulns - RunVulns),
              outd \in (IF checkOutdated
                        THEN OutdatedProcs(MaxRunOutdated - RunOutdated)
                        ELSE {Proc(0, "empty", <<>>)}) :
             LET vulnerabilities == scanVulnerabilities(audit)
                 outdated == IF checkOutdated THEN checkOutdatedPackages(outd)
                             ELSE <<>>
             IN  /\ commands' = commands
                        \o <<Command("npm audit --json", unit)>>
                        \o (IF checkOutdated
                            THEN <<Command("npm outdated --json", unit)>>
                            ELSE <<>>)
                 /\ scanResults' = scanResults @@
                        (unit :> [ vulnerabilities |-> vulnerabilities.vulnerabilities,
                                   outdated |-> outdated ])
                 /\ warnLog' = IF keep THEN warnLog \o ScanWarnings(unit, audit)
                               ELSE warnLog
    /\ pc' = IF pc.i < Len(packages) THEN At("scan", pc.i + 1) ELSE At("report", 0)
    /\ UNCHANGED <<argv, excludePackages, manifestFiles, reportsDir, reportFiles,
                   fsLog, testLog, updatedLog, packages, updateResults, prompts,
                   errorLog>>
    /\ UNCHANGED analyzerVars
    /\ UNCHANGED gitVars
    /\ UNCHANGED consoleVars
    /\ UNCHANGED notifyVars

ScanUnit == ScanIteration(FALSE)

AfterReport_AlwaysUpdate == At("update", 1)

\* if (!scanOnly) { the update loop }: under --scan the loop is skipped and
\* main prints the dry-run log and returns
AfterReport == IF scanOnly THEN At("done", 0) ELSE At("update", 1)

\* if (generateReport) await generateSecurityReport(scanResults)
Report ==
    /\ pc.at = "report"
    /\ \E fsOk \in BOOLEAN :
         LET r == generateSecurityReport(scanResults, packages, fsOk)
             after == AfterReport
         IN  IF generateReport
             THEN /\ reportsDir' = r.reportsDir
                  /\ reportFiles' = reportFiles \o r.reportFiles
                  /\ fsLog' = fsLog \o r.fsLog
                  /\ testLog' = testLog \o r.testLog
                  /\ pc' = IF r.returned THEN after ELSE At("exit1", 0)
             ELSE /\ pc' = after
                  /\ UNCHANGED <<reportsDir, reportFiles, fsLog, testLog>>
    /\ UNCHANGED <<argv, excludePackages, manifestFiles, commands, updatedLog,
                   packages, scanResults, updateResults, prompts, errorLog, warnLog>>
    /\ UNCHANGED analyzerVars
    /\ UNCHANGED gitVars
    /\ UNCHANGED consoleVars
    /\ UNCHANGED notifyVars

Mode_ForceFirst == IF isForceUpdate THEN "force" ELSE IF isAutoUpdate THEN "auto" ELSE "interactive"

\* const mode = isAutoUpdate ? 'auto' : isForceUpdate ? 'force' : 'interactive'
Mode == IF isAutoUpdate THEN "auto" ELSE IF isForceUpdate THEN "force" ELSE "interactive"

\* the plan updateDependencies builds for a unit
PlanOf(unit, mode) ==
    SecurityUpdates(scanResults[unit].vulnerabilities, mode)
    \o OutdatedUpdates(scanResults[unit].outdated, mode)

NeedsUpdate_Always(vulnCount, outdatedCount) == TRUE

\* if (vulnCount > 0 || outdatedCount > 0)
NeedsUpdate(vulnCount, outdatedCount) == vulnCount > 0 \/ outdatedCount > 0

AfterUpdate_RetryOnFailure(i, ret) ==
    IF ~ret THEN At("update", i)
    ELSE IF i < Len(packages) THEN At("update", i + 1) ELSE At("done", 0)

AfterUpdate_StopOnFailure(i, ret) ==
    IF ret /\ i < Len(packages) THEN At("update", i + 1) ELSE At("done", 0)

\* main does not look at what updateDependencies returned: the loop goes on
\* to the next unit, and after the last one main prints the dry-run log and
\* returns
AfterUpdate(i, ret) ==
    IF i < Len(packages) THEN At("update", i + 1) ELSE At("done", 0)

\* one iteration of the update loop; choices, entryAnswers: what the operator
\* may answer to the mode prompt and to the prompt of an entry
UpdateIteration(choices, entryAnswers) ==
    /\ pc.at = "update"
    /\ LET unit == packages[pc.i]
           data == scanResults[unit]
           vulnCount == Len(data.vulnerabilities)
           outdatedCount == Cardinality(DOMAIN data.outdated)
       IN  IF NeedsUpdate(vulnCount, outdatedCount)
           THEN \* the operator is asked under the interactive policy only, and
                \* for per-entry answers after the choice 'i' only
                \E choice \in (IF Mode = "interactive" THEN choices ELSE {"n"}) :
                \E answers \in (IF choice = "i"
                                 THEN [1..Len(PlanOf(unit, Mode)) -> entryAnswers]
                                 ELSE {<<>>}),
                   \* a write and an install are attempted outside dry runs
                   \* only, the install after a write that succeeded only
                   writeOk \in (IF isDryRun THEN {TRUE} ELSE BOOLEAN) :
                \E install \in (IF isDryRun \/ ~writeOk
                                 THEN {Proc(0, "empty", <<>>)} ELSE InstallProcs) :
                  LET e == updateDependencies(unit, data.vulnerabilities, data.outdated,
                                              Mode, choice, answers, writeOk, install)
                  IN  /\ manifestFiles' = [manifestFiles EXCEPT ![unit] = e.file]
                      /\ fsLog' = fsLog \o e.fsLog
                      /\ commands' = commands \o e.commands
                      /\ testLog' = testLog \o e.testLog
                      /\ updatedLog' = updatedLog \o e.updatedLog
                      /\ updateResults' = updateResults @@ (unit :> e.ret)
                      /\ prompts' = prompts \o e.prompts
                      /\ errorLog' = errorLog \o e.errors
                      /\ pc' = AfterUpdate(pc.i, e.ret)
           ELSE /\ pc' = AfterUpdate(pc.i, TRUE)
                /\ UNCHANGED <<manifestFiles, fsLog, commands, testLog, updatedLog,
                               updateResults, prompts, errorLog, warnLog>>
    /\ UNCHANGED <<argv, excludePackages, reportsDir, reportFiles, packages,
                   scanResults, warnLog>>
    /\ UNCHANGED analyzerVars
    /\ UNCHANGED gitVars
    /\ UNCHANGED consoleVars
    /\ UNCHANGED notifyVars

UpdateUnit == UpdateIteration(Choices, Answers)

Next == MainStart \/ ScanUnit \/ Report \/ UpdateUnit

Spec == Init /\ [][Next]_vars

-----------------------------------------------------------------------------
(* SpecReport: main at the report, after a scan of one to three units *)

\* what the scan of one unit can have returned
ReportUnitResults ==
    [ vulnerabilities : SeqsUpTo(MainVulnData, MaxReportFindings),
      \* nothing outdated, or P
      outdated : {o \in OutdatedObjects(1) : DOMAIN o \subseteq {"P"}} ]

\* the commands the scan loop has run by then
RECURSIVE ScanCommands(_)
ScanCommands(units) ==
    IF units = <<>> THEN <<>>
    ELSE <<Command("npm audit --json", Head(units)),
           Command("npm outdated --json", Head(units))>> \o ScanCommands(Tail(units))

ReportInit ==
    /\ analysis = <<>>
    /\ scoreVulns = <<>>
    /\ scoreOutdated = <<>>
    /\ score = Null
    /\ scanCall = <<>>
    /\ applyCall = <<>>
    /\ argv = {"--scan", "--check-outdated", "--report"}
    /\ excludePackages = {}
    /\ \E n \in 1..Len(packagePaths) :
         /\ packages = SubSeq(packagePaths, 1, n)
         /\ manifestFiles = [u \in {packagePaths[i] : i \in 1..n} |-> FullDisk[u]]
         /\ scanResults \in [{packagePaths[i] : i \in 1..n} -> ReportUnitResults]
         /\ commands = ScanCommands(SubSeq(packagePaths, 1, n))
    /\ reportsDir \in BOOLEAN
    /\ reportFiles = <<>>
    /\ fsLog = <<>>
    /\ testLog = <<>>
    /\ updatedLog = <<>>
    /\ updateResults = <<>>
    /\ prompts = <<>>
    /\ errorLog = <<>>
    /\ warnLog = <<>>
    /\ pc = At("report", 0)
    /\ GitIdle
    /\ ConsoleIdle
    /\ NotifyIdle

ReportNext == Report

SpecReport == ReportInit /\ [][ReportNext]_vars

-----------------------------------------------------------------------------
(* SpecScanLoop: main up to the update loop, the scan warnings kept *)

ScanUnitWarned == ScanIteration(TRUE)

ScanLoopNext == MainStart \/ ScanUnitWarned \/ Report

SpecScanLoop == Init /\ [][ScanLoopNext]_vars

-----------------------------------------------------------------------------
(* SpecAnalyze: analyzeVulnerability on one advisory *)

AnalyzeSeverities == Severities \cup {Undefined}
AnalyzeElapsed == (0 - HoursPerDay) .. (MaxElapsedDays * HoursPerDay)

AnalyzeInit ==
    /\ analysis = <<>>
    /\ scoreVulns = <<>>
    /\ scoreOutdated = <<>>
    /\ score = Null
    /\ scanCall = <<>>
    /\ applyCall = <<>>
    /\ DmIdle
    /\ GitIdle
    /\ ConsoleIdle
    /\ NotifyIdle

\* one call of analyzeVulnerability per behaviour
Analyze ==
    /\ analysis = <<>>
    /\ \E sev \in AnalyzeSeverities, created \in {{}} \cup {{h} : h \in AnalyzeElapsed} :
         LET vulnData == VulnData(sev, created, Undefined, Undefined)
         IN  analysis' = << [ input |-> vulnData,
                              result |-> analyzeVulnerability("V", vulnData) ] >>
    /\ UNCHANGED <<scoreVulns, scoreOutdated, score, scanCall, applyCall>>
    /\ UNCHANGED dmVars
    /\ UNCHANGED gitVars
    /\ UNCHANGED consoleVars
    /\ UNCHANGED notifyVars

AnalyzeNext == Analyze

SpecAnalyze == AnalyzeInit /\ [][AnalyzeNext]_vars

-----------------------------------------------------------------------------
(* SpecScore: calculateSecurityScore on a unit whose findings grow *)

\* an advisory is fresh, or older than every SLA ceiling
ScoreElapsed == {0, (SECURITY_CONFIG.maxAge.low + 1) * HoursPerDay}

ScoreVulnData ==
    { VulnData(sev, {h}, Undefined, Undefined) :
        sev \in AnalyzeSeverities, h \in ScoreElapsed }

OutdatedInfo == [current |-> "1.0.0", wanted |-> "1.1.0", latest |-> "2.0.0"]

ScoreInit ==
    /\ analysis = <<>>
    /\ scoreVulns = <<>>
    /\ scoreOutdated = <<>>
    /\ score = calculateSecurityScore(<<>>, <<>>)
    /\ scanCall = <<>>
    /\ applyCall = <<>>
    /\ DmIdle
    /\ GitIdle
    /\ ConsoleIdle
    /\ NotifyIdle

\* one more advisory in the audit result
ScoreAddVulnerability ==
    /\ Len(scoreVulns) < MaxVulns
    /\ \E v \in ScoreVulnData :
         /\ scoreVulns' = Append(scoreVulns, v)
         /\ score' = calculateSecurityScore(scoreVulns', scoreOutdated)
    /\ UNCHANGED <<analysis, scoreOutdated, scanCall, applyCall>>
    /\ UNCHANGED dmVars
    /\ UNCHANGED gitVars
    /\ UNCHANGED consoleVars
    /\ UNCHANGED notifyVars

\* one more package in the outdated result
ScoreAddOutdated ==
    /\ Len(scoreOutdated) < MaxOutdated
    /\ scoreOutdated' = Append(scoreOutdated, OutdatedInfo)
    /\ score' = calculateSecurityScore(scoreVulns, scoreOutdated')
    /\ UNCHANGED <<analysis, scoreVulns, scanCall, applyCall>>
    /\ UNCHANGED dmVars
    /\ UNCHANGED gitVars
    /\ UNCHANGED consoleVars
    /\ UNCHANGED notifyVars

ScoreNext == ScoreAddVulnerability \/ ScoreAddOutdated

SpecScore == ScoreInit /\ [][ScoreNext]_vars

-----------------------------------------------------------------------------
(* SpecScan: the Manifest Scanner on one outcome of the package manager *)

ScanInit ==
    /\ analysis = <<>>
    /\ scoreVulns = <<>>
    /\ scoreOutdated = <<>>
    /\ score = Null
    /\ scanCall = <<>>
    /\ applyCall = <<>>
    /\ DmIdle
    /\ GitIdle
    /\ ConsoleIdle
    /\ NotifyIdle

\* what the package manager can do: exit with status 0 or 1, having printed
\* JSON, something else or nothing; status 127 is a launch failure
ScanStatuses == {0, 1}
ScanAuditProcs ==
    {Proc(st, "json", vs) : st \in ScanStatuses,
                            vs \in SeqsUpTo(MainVulnData \cup ScoreVulnData, MaxScanFindings)}
    \cup {Proc(st, k, <<>>) : st \in ScanStatuses, k \in {"garbage", "empty"}}
    \cup {Proc(127, "empty", <<>>)}
ScanOutdatedProcs ==
    {Proc(st, "json", o) : st \in ScanStatuses, o \in OutdatedObjects(MaxScanFindings)}
    \cup {Proc(st, k, <<>>) : st \in ScanStatuses, k \in {"garbage", "empty"}}
    \cup {Proc(127, "empty", <<>>)}

\* one call of scanVulnerabilities per behaviour
ScanVulnerabilitiesCall ==
    /\ scanCall = <<>>
    /\ \E proc \in ScanAuditProcs :
         scanCall' = << [ fn |-> "scanVulnerabilities", proc |-> proc,
                          result |-> scanVulnerabilities(proc).vulnerabilities ] >>
    /\ UNCHANGED <<analysis, scoreVulns, scoreOutdated, score, applyCall>>
    /\ UNCHANGED dmVars
    /\ UNCHANGED gitVars
    /\ UNCHANGED consoleVars
    /\ UNCHANGED notifyVars

\* one call of checkOutdatedPackages per behaviour
CheckOutdatedCall ==
    /\ scanCall = <<>>
    /\ \E proc \in ScanOutdatedProcs :
         scanCall' = << [ fn |-> "checkOutdatedPackages", proc |-> proc,
                          result |-> checkOutdatedPackages(proc) ] >>
    /\ UNCHANGED <<analysis, scoreVulns, scoreOutdated, score, applyCall>>
    /\ UNCHANGED dmVars
    /\ UNCHANGED gitVars
    /\ UNCHANGED consoleVars
    /\ UNCHANGED notifyVars

ScanNext == ScanVulnerabilitiesCall \/ CheckOutdatedCall

SpecScan == ScanInit /\ [][ScanNext]_vars

-----------------------------------------------------------------------------
(* SpecApply: applyUpdates on one unit's manifest *)

\* the elements of s at the indexes in keep, in order
SubSeqAt(s, keep) ==
    LET idx == SelectSeq([i \in DOMAIN s |-> i], LAMBDA i : i \in keep)
    IN  [j \in DOMAIN idx |-> s[idx[j]]]

\* the lists updateDependencies and interactiveUpdate hand to applyUpdates:
\* the plan built from a scan, all of it, its security entries, or the
\* entries the operator selected
AppliedPlans ==
    UNION { { SubSeqAt(SecurityUpdates(vs, "force") \o OutdatedUpdates(o, "force"), keep) :
                keep \in SUBSET (1..(Len(vs) + Cardinality(DOMAIN o))) } :
            vs \in SeqsUpTo(MainVulnData, MaxPlanVulns),
            o \in OutdatedObjects(MaxPlanOutdated) }

ApplyInit ==
    /\ analysis = <<>>
    /\ scoreVulns = <<>>
    /\ scoreOutdated = <<>>
    /\ score = Null
    /\ scanCall = <<>>
    /\ applyCall = <<>>
    /\ argv \in SUBSET {"--dry-run"}
    /\ excludePackages = {}
    /\ manifestFiles = FullDisk
    /\ reportsDir = FALSE
    /\ reportFiles = <<>>
    /\ fsLog = <<>>
    /\ commands = <<>>
    /\ testLog = <<>>
    /\ updatedLog = <<>>
    /\ packages = <<>>
    /\ scanResults = <<>>
    /\ updateResults = <<>>
    /\ prompts = <<>>
    /\ errorLog = <<>>
    /\ warnLog = <<>>
    /\ pc = At("idle", 0)
    /\ GitIdle
    /\ ConsoleIdle
    /\ NotifyIdle

\* one call of applyUpdates per behaviour
ApplyUpdatesCall ==
    /\ applyCall = <<>>
    /\ \E unit \in DOMAIN manifestFiles, updates \in AppliedPlans,
          writeOk \in (IF isDryRun THEN {TRUE} ELSE BOOLEAN) :
       \E install \in (IF isDryRun \/ ~writeOk
                        THEN {Proc(0, "empty", <<>>)} ELSE InstallProcs) :
         LET e == applyUpdates(unit, updates, writeOk, install)
         IN  /\ manifestFiles' = [manifestFiles EXCEPT ![unit] = e.file]
             /\ fsLog' = fsLog \o e.fsLog
             /\ commands' = commands \o e.commands
             /\ testLog' = testLog \o e.testLog
             /\ updatedLog' = updatedLog \o e.updatedLog
             /\ errorLog' = errorLog \o e.errors
             /\ applyCall' = << [unit |-> unit, updates |-> updates, ret |-> e.ret] >>
    /\ UNCHANGED <<argv, excludePackages, reportsDir, reportFiles, packages,
                   scanResults, updateResults, prompts, warnLog, pc>>
    /\ UNCHANGED <<analysis, scoreVulns, scoreOutdated, score, scanCall>>
    /\ UNCHANGED gitVars
    /\ UNCHANGED consoleVars
    /\ UNCHANGED notifyVars

ApplyNext == ApplyUpdatesCall

SpecApply == ApplyInit /\ [][ApplyNext]_vars

-----------------------------------------------------------------------------
(* SpecMerge: calls of mergeAikidoBranch on a repository *)

YesNo == {"y", "n"}

MergeInit ==
    /\ analysis = <<>>
    /\ scoreVulns = <<>>
    /\ scoreOutdated = <<>>
    /\ score = Null
    /\ scanCall = <<>>
    /\ applyCall = <<>>
    /\ DmIdle
    /\ currentBranch \in WorkBranches
    /\ mergeHead = <<>>
    /\ mergedInto = [b \in WorkBranches |-> {}]
    /\ localBranches = {b \in SecurityBranches : Head(b) # "origin"}
    /\ mergeLog = <<>>
    /\ ConsoleIdle
    /\ NotifyIdle

\* one call of mergeAikidoBranch on a listed branch
MergeAikidoBranch ==
    /\ Len(mergeLog) < MaxMergeCalls
    /\ \E branchName \in SecurityBranches,
          switchToMain \in YesNo, checkoutOk \in BOOLEAN, pullOk \in BOOLEAN,
          confirmMerge \in YesNo, outcome \in MergeOutcomes, deleteBranch \in YesNo :
         LET r == mergeAikidoBranch(branchName, switchToMain, checkoutOk, pullOk,
                                    confirmMerge, outcome, deleteBranch)
         IN  /\ currentBranch' = r.repo.currentBranch
             /\ mergeHead' = r.repo.mergeHead
             /\ mergedInto' = r.repo.mergedInto
             /\ localBranches' = r.repo.localBranches
             /\ mergeLog' = Append(mergeLog,
                    [ branch |-> branchName, ret |-> r.ret,
                      executed |-> r.executed, on |-> r.on,
                      from |-> currentBranch, switchToMain |-> switchToMain,
                      confirmMerge |-> confirmMerge,
                      deleteBranch |-> deleteBranch, cleanup |-> r.cleanup ])
    /\ UNCHANGED analyzerVars
    /\ UNCHANGED dmVars
    /\ UNCHANGED consoleVars
    /\ UNCHANGED notifyVars

MergeNext == MergeAikidoBranch

SpecMerge == MergeInit /\ [][MergeNext]_vars

-----------------------------------------------------------------------------
(* interactive-aikido-manager.mjs: session data and menus *)

\* an entry of `vulnerabilities`, in the output of npm audit or in a report
Finding(package, severity, fixAvailable) ==
    [package |-> package, severity |-> severity, fixAvailable |-> fixAvailable]

\* data: the entries of auditData.vulnerabilities, in key order
processNpmAuditData(fixes, data) ==
    fixes \o [i \in DOMAIN data |->
                [ type |-> "npm", severity |-> data[i].severity,
                  package |-> data[i].package,
                  fixAvailable |-> data[i].fixAvailable, source |-> "npm" ]]

\* data: report.vulnerabilities
processAikidoReport(fixes, data) ==
    fixes \o [i \in DOMAIN data |->
                [ type |-> "aikido", severity |-> data[i].severity,
                  package |-> data[i].package,
                  fixAvailable |-> data[i].fixAvailable, source |-> "aikido" ]]

\* source: <<>> when reports/ holds no aikido report, else the content of
\* the latest one; a report that does not parse is logged and skipped
loadAikidoResults(fixes, source) ==
    IF source = <<>> THEN fixes
    ELSE IF source[1].kind = "json" THEN processAikidoReport(fixes, source[1].data)
    ELSE fixes

\* proc: what `npm audit --json` did.  On exit 0 stdout is parsed; when that
\* throws, or execSync threw, error.stdout || '{}' is parsed instead
loadNpmAuditResults(fixes, proc) ==
    IF proc.status = 0 /\ proc.stdout.kind = "json"
    THEN processNpmAuditData(fixes, proc.stdout.data)
    ELSE IF proc.status # 0 /\ proc.stdout.kind = "json"
         THEN processNpmAuditData(fixes, proc.stdout.data)
    ELSE fixes

\* fixes: this.pendingFixes when the call starts
loadSecurityData(fixes, remote, gitOk, report, proc) ==
    [ securityBranches |-> loadSecurityBranches(remote, gitOk),
      pendingFixes |-> loadNpmAuditResults(loadAikidoResults(fixes, report), proc) ]

\* weights[severity] || 0
getSeverityWeight(severity) ==
    CASE severity = "critical" -> 4
      [] severity = "high" -> 3
      [] severity = "medium" -> 2
      [] severity = "low" -> 1
      [] OTHER -> 0

\* Array.prototype.sort with (a, b) => weight(b) - weight(a): stable, the
\* heavier first
RECURSIVE InsertFix(_, _)
InsertFix(sorted, fix) ==
    IF sorted = <<>> THEN <<fix>>
    ELSE IF getSeverityWeight(Head(sorted).severity) >= getSeverityWeight(fix.severity)
         THEN <<Head(sorted)>> \o InsertFix(Tail(sorted), fix)
    ELSE <<fix>> \o sorted

RECURSIVE SortFixes(_, _)
SortFixes(sorted, rest) ==
    IF rest = <<>> THEN sorted
    ELSE SortFixes(InsertFix(sorted, Head(rest)), Tail(rest))

\* this.pendingFixes.filter(f => f.severity === severity).length
CountOf(fixes, severity) ==
    Cardinality({i \in DOMAIN fixes : fixes[i].severity = severity})

\* the four counts printSecuritySummary prints
printSecuritySummary(fixes) ==
    [ Critical |-> CountOf(fixes, "critical"),
      High |-> CountOf(fixes, "high"),
      Medium |-> CountOf(fixes, "medium"),
      Low |-> CountOf(fixes, "low") ]

\* the methods the class InteractiveAikidoManager defines
DefinedMethods ==
    { "runInteractiveDashboard", "printHeader", "loadSecurityData",
      "loadSecurityBranches", "loadAikidoResults", "loadNpmAuditResults",
      "processAikidoReport", "processNpmAuditData", "showMainMenu",
      "printSecuritySummary", "printMainMenuOptions", "showVulnerabilities",
      "handleVulnerabilityAction", "acceptFix", "manageBranches",
      "autoMergeSafeBranches", "emergencyResponse", "emergencyAutoFix",
      "sendEmergencyNotifications", "getSeverityWeight", "getSeverityIcon",
      "getSeverityColor", "prompt" }

\* await this.<method>(): a TypeError when the class has no such method
Throws(method) == method \notin DefinedMethods

\* choice.toLowerCase() on the answers of the model
ToLowerCase(answer) ==
    CASE answer = "Q" -> "q"
      [] answer = "V" -> "v"
      [] OTHER -> answer

\* the switch of showMainMenu: the method, or what else the case does
MenuOption(choice) ==
    LET c == ToLowerCase(choice)
    IN  CASE c \in {"1", "v"} -> "showVulnerabilities"
          [] c \in {"2", "b"} -> "manageBranches"
          [] c \in {"3", "a"} -> "performActions"
          [] c \in {"4", "s"} -> "runSecurityScan"
          [] c \in {"5", "n"} -> "configureNotifications"
          [] c \in {"6", "e"} -> "emergencyResponse"
          [] c \in {"q", "quit", "exit"} -> "quit"
          [] c \in {"r", "refresh"} -> "loadSecurityData"
          [] OTHER -> "invalid"

\* parseInt on the answers of the model; 0 stands for NaN
ParseInt(answer) ==
    CASE answer = "1" -> 1
      [] answer = "2" -> 2
      [] answer = "3" -> 3
      [] OTHER -> 0

\* the switch of handleVulnerabilityAction: TRUE when the call throws
handleVulnerabilityAction(action) ==
    CASE action = "1" -> Throws("acceptFix")
      [] action = "4" -> Throws("showVulnerabilityDetails")
      [] action = "5" -> Throws("createCustomFix")
      [] OTHER -> FALSE

\* choice: the answer to `Enter vulnerability number to act on (or 'back')`
showVulnerabilities(fixes, choice, action) ==
    LET sorted == SortFixes(<<>>, fixes)
        index == ParseInt(choice) - 1
    IN  IF Len(fixes) = 0 THEN [pendingFixes |-> fixes, threw |-> FALSE]
        ELSE [ pendingFixes |-> sorted,
               threw |-> /\ ToLowerCase(choice) # "back"
                         /\ index >= 0 /\ index < Len(sorted)
                         /\ handleVulnerabilityAction(action) ]

\* the switch of manageBranches, the case 'a' apart: TRUE when it throws
manageBranches(branches, choice) ==
    IF Len(branches) = 0 THEN FALSE
    ELSE CASE ToLowerCase(choice) = "m" -> Throws("mergeSpecificBranch")
           [] ToLowerCase(choice) = "d" -> Throws("deleteMergedBranches")
           [] ToLowerCase(choice) = "c" -> Throws("createSecurityBranch")
           [] OTHER -> FALSE

\* the switch of emergencyResponse: TRUE when the call throws
emergencyResponse(choice) ==
    CASE choice = "1" -> Throws("emergencyAutoFix")
      [] choice = "2" -> Throws("sendEmergencyNotifications")
      [] choice = "3" -> Throws("createEmergencyBranch")
      [] choice = "4" -> Throws("emergencyRollback")
      [] choice = "5" -> Throws("generateEmergencyReport")
      [] OTHER -> FALSE

\* an error out of showMainMenu is caught in runInteractiveDashboard, which
\* closes the readline interface: the session is over
AfterWorkflow(threw) == IF threw THEN "crashed" ELSE "menu"

-----------------------------------------------------------------------------
(* SpecConsole: the branch listing and a console session on a repository *)

\* the lines of `git branch -r` of a repository with the branches in S
RemoteLines(S) == SelectSeq(RemoteOrder, LAMBDA b : b \in S)

\* the lines of `git branch`: the current branch and the local branches
LocalLines == <<<<currentBranch>>>> \o SelectSeq(LocalOrder, LAMBDA b : b \in localBranches)

ConsoleInit ==
    /\ analysis = <<>>
    /\ scoreVulns = <<>>
    /\ scoreOutdated = <<>>
    /\ score = Null
    /\ scanCall = <<>>
    /\ applyCall = <<>>
    /\ DmIdle
    /\ currentBranch \in WorkBranches
    /\ mergeHead = <<>>
    /\ mergedInto = [b \in WorkBranches |-> {}]
    /\ localBranches \in {{}, {SecurityManualPatch}}
    /\ mergeLog = <<>>
    /\ remoteBranches \in
           {RemoteLines(S) : S \in {T \in SUBSET RemoteNames :
                                        Cardinality(T) <= MaxRemoteBranches}}
    /\ listing = <<>>
    /\ securityBranches = <<>>
    /\ autoMerged = <<>>
    \* the branch views are run on a project without findings
    /\ pendingFixes = <<>>
    /\ auditSource = Proc(0, "json", <<>>)
    /\ reportSource = <<>>
    /\ menuChoice = "none"
    /\ consolePc = "start"
    /\ NotifyIdle

\* aikido-branch-manager: manageSecurityBranches lists the branches
ListSecurityBranches ==
    /\ listing = <<>>
    /\ \E gitOk \in BOOLEAN :
         listing' = <<listSecurityBranches(remoteBranches, LocalLines, gitOk)>>
    /\ UNCHANGED <<remoteBranches, securityBranches, autoMerged, pendingFixes,
                   auditSource, reportSource, menuChoice, consolePc>>
    /\ UNCHANGED analyzerVars
    /\ UNCHANGED dmVars
    /\ UNCHANGED gitVars
    /\ UNCHANGED notifyVars

\* runInteractiveDashboard: loadSecurityData, then the main menu; the menu
\* option 'r' loads again
LoadSecurityData ==
    /\ consolePc \in {"start", "menu"}
    /\ \E gitOk \in BOOLEAN :
         LET r == loadSecurityData(pendingFixes, remoteBranches, gitOk,
                                   reportSource, auditSource)
         IN  /\ Len(r.pendingFixes) <= MaxPendingFixes
             /\ securityBranches' = r.securityBranches
             /\ pendingFixes' = r.pendingFixes
    /\ menuChoice' = IF consolePc = "menu" THEN "loadSecurityData" ELSE menuChoice
    /\ consolePc' = "menu"
    /\ UNCHANGED <<remoteBranches, listing, autoMerged, auditSource, reportSource>>
    /\ UNCHANGED analyzerVars
    /\ UNCHANGED dmVars
    /\ UNCHANGED gitVars
    /\ UNCHANGED notifyVars

\* menu option 'b', then 'a': manageBranches returns before its menu when no
\* branch is loaded
AutoMergeSafeBranches ==
    /\ consolePc = "menu"
    /\ Len(securityBranches) > 0
    /\ \E outcomes \in [1..Len(SafeBranches(securityBranches)) -> MergeOutcomes] :
         LET r == autoMergeSafeBranches(securityBranches, outcomes)
         IN  /\ autoMerged' = r.log
             /\ mergeHead' = r.repo.mergeHead
             /\ mergedInto' = r.repo.mergedInto
    /\ menuChoice' = "manageBranches"
    /\ consolePc' = AfterWorkflow(Throws("autoMergeSafeBranches"))
    /\ UNCHANGED <<currentBranch, localBranches, mergeLog>>
    /\ UNCHANGED <<remoteBranches, listing, securityBranches, pendingFixes,
                   auditSource, reportSource>>
    /\ UNCHANGED analyzerVars
    /\ UNCHANGED dmVars
    /\ UNCHANGED notifyVars

\* menu option 'q'
ConsoleQuit ==
    /\ consolePc = "menu"
    /\ consolePc' = "closed"
    /\ menuChoice' = "quit"
    /\ UNCHANGED <<remoteBranches, listing, securityBranches, autoMerged,
                   pendingFixes, auditSource, reportSource>>
    /\ UNCHANGED analyzerVars
    /\ UNCHANGED dmVars
    /\ UNCHANGED gitVars
    /\ UNCHANGED notifyVars

ConsoleNext ==
    ListSecurityBranches \/ LoadSecurityData \/ AutoMergeSafeBranches \/ ConsoleQuit

SpecConsole == ConsoleInit /\ [][ConsoleNext]_vars

-----------------------------------------------------------------------------
(* SpecMenu: a session of the interactive console, from the first load on *)

\* the entries npm audit can list, in key order
ConsoleFindings ==
    << Finding("lodash", "moderate", TRUE),
       Finding("minimist", "critical", TRUE),
       Finding("axios", "low", FALSE) >>

\* what `npm audit --json` can do in the project root
ConsoleAuditProcs ==
    { Proc(st, "json", SubSeqAt(ConsoleFindings, keep)) :
        st \in {0, 1},
        keep \in {K \in SUBSET DOMAIN ConsoleFindings :
                      Cardinality(K) <= MaxConsoleFindings} }
    \cup {Proc(1, "garbage", <<>>), Proc(0, "empty", <<>>)}

\* the latest aikido report: none, one that does not parse, one finding
ConsoleReports ==
    { <<>>,
      <<[kind |-> "garbage", data |-> <<>>]>>,
      <<[kind |-> "json", data |-> <<Finding("express", "high", TRUE)>>]>> }

MenuInit ==
    /\ analysis = <<>>
    /\ scoreVulns = <<>>
    /\ scoreOutdated = <<>>
    /\ score = Null
    /\ scanCall = <<>>
    /\ applyCall = <<>>
    /\ DmIdle
    /\ currentBranch = "main"
    /\ mergeHead = <<>>
    /\ mergedInto = [b \in WorkBranches |-> {}]
    /\ localBranches = {}
    /\ mergeLog = <<>>
    /\ remoteBranches \in {<<>>, RemoteLines({RemoteOrder[1], RemoteOrder[5]})}
    /\ listing = <<>>
    /\ securityBranches = <<>>
    /\ autoMerged = <<>>
    /\ pendingFixes = <<>>
    /\ auditSource \in ConsoleAuditProcs
    /\ reportSource \in ConsoleReports
    /\ menuChoice = "none"
    /\ consolePc = "start"
    /\ NotifyIdle

\* the answers that select the option in the main menu
MenuKeys(option) ==
    {k \in {"1", "V", "2", "b", "3", "4", "s", "5", "6", "e", "q", "Q", "exit",
             "r", "refresh", "0", ""} : MenuOption(k) = option}

\* menu option '1': the detail view, and an action on one vulnerability
ShowVulnerabilities ==
    /\ consolePc = "menu"
    /\ \E key \in MenuKeys("showVulnerabilities"),
          choice \in {"back", "1", "2", "3", ""} :
       \* `Select action` is asked for a number that is in the list
       \E action \in (IF ParseInt(choice) \in 1..Len(pendingFixes)
                       THEN {"1", "2", "3", "4", "5", ""} ELSE {""}) :
         LET r == showVulnerabilities(pendingFixes, choice, action)
         IN  /\ pendingFixes' = r.pendingFixes
             /\ menuChoice' = MenuOption(key)
             /\ consolePc' = AfterWorkflow(Throws(MenuOption(key)) \/ r.threw)
    /\ UNCHANGED <<remoteBranches, listing, securityBranches, autoMerged,
                   auditSource, reportSource>>
    /\ UNCHANGED analyzerVars
    /\ UNCHANGED dmVars
    /\ UNCHANGED gitVars
    /\ UNCHANGED notifyVars

\* menu option '2' with an answer other than 'a' to `Select action`
ManageBranches ==
    /\ consolePc = "menu"
    /\ \E key \in MenuKeys("manageBranches"), choice \in {"m", "d", "c", ""} :
         /\ menuChoice' = MenuOption(key)
         /\ consolePc' = AfterWorkflow(\/ Throws(MenuOption(key))
                                       \/ manageBranches(securityBranches, choice))
    /\ UNCHANGED <<remoteBranches, listing, securityBranches, autoMerged,
                   pendingFixes, auditSource, reportSource>>
    /\ UNCHANGED analyzerVars
    /\ UNCHANGED dmVars
    /\ UNCHANGED gitVars
    /\ UNCHANGED notifyVars

\* menu options '3', '4' and '5'
MenuCall ==
    /\ consolePc = "menu"
    /\ \E option \in {"performActions", "runSecurityScan", "configureNotifications"} :
       \E key \in MenuKeys(option) :
         /\ menuChoice' = MenuOption(key)
         /\ consolePc' = AfterWorkflow(Throws(MenuOption(key)))
    /\ UNCHANGED <<remoteBranches, listing, securityBranches, autoMerged,
                   pendingFixes, auditSource, reportSource>>
    /\ UNCHANGED analyzerVars
    /\ UNCHANGED dmVars
    /\ UNCHANGED gitVars
    /\ UNCHANGED notifyVars

\* menu option '6' and the answer to `Select emergency action`
EmergencyResponse ==
    /\ consolePc = "menu"
    /\ \E key \in MenuKeys("emergencyResponse"),
          choice \in {"1", "2", "3", "4", "5", ""} :
         /\ menuChoice' = MenuOption(key)
         /\ consolePc' = AfterWorkflow(\/ Throws(MenuOption(key))
                                       \/ emergencyResponse(choice))
    /\ UNCHANGED <<remoteBranches, listing, securityBranches, autoMerged,
                   pendingFixes, auditSource, reportSource>>
    /\ UNCHANGED analyzerVars
    /\ UNCHANGED dmVars
    /\ UNCHANGED gitVars
    /\ UNCHANGED notifyVars

\* any other answer: `Invalid option`, and the menu again
InvalidOption ==
    /\ consolePc = "menu"
    /\ \E key \in MenuKeys("invalid") : menuChoice' = MenuOption(key)
    /\ UNCHANGED <<remoteBranches, listing, securityBranches, autoMerged,
                   pendingFixes, auditSource, reportSource, consolePc>>
    /\ UNCHANGED analyzerVars
    /\ UNCHANGED dmVars
    /\ UNCHANGED gitVars
    /\ UNCHANGED notifyVars

MenuNext ==
    \/ LoadSecurityData
    \/ ShowVulnerabilities
    \/ ManageBranches
    \/ AutoMergeSafeBranches
    \/ MenuCall
    \/ EmergencyResponse
    \/ InvalidOption
    \/ ConsoleQuit

SpecMenu == MenuInit /\ [][MenuNext]_vars

-----------------------------------------------------------------------------
(* SpecNotify: a notification manager, constructed, sends one alert *)

Alerts == [severity : Severities]

NotifyInit ==
    /\ analysis = <<>>
    /\ scoreVulns = <<>>
    /\ scoreOutdated = <<>>
    /\ score = Null
    /\ scanCall = <<>>
    /\ applyCall = <<>>
    /\ DmIdle
    /\ GitIdle
    /\ ConsoleIdle
    /\ notifyConfig \in NotifyConfigs
    /\ emailTransporter = FALSE
    /\ verifyState = "new"
    /\ alert = <<>>
    /\ channels = ChannelsIdle
    /\ deliveries = <<>>
    /\ sendResult = "none"

\* new SecurityNotificationManager(): initializeTransporter is called and
\* not awaited
Construct ==
    /\ verifyState = "new"
    /\ \E created \in BOOLEAN :
         LET r == initializeTransporter(created)
         IN  /\ emailTransporter' = r.emailTransporter
             /\ verifyState' = r.verifyState
    /\ UNCHANGED <<notifyConfig, alert, channels, deliveries, sendResult>>
    /\ UNCHANGED analyzerVars
    /\ UNCHANGED dmVars
    /\ UNCHANGED gitVars
    /\ UNCHANGED consoleVars

\* emailTransporter.verify() settles; a failure is logged
VerifySettles ==
    /\ verifyState = "pending"
    /\ verifyState' \in {"verified", "failed"}
    /\ UNCHANGED <<notifyConfig, emailTransporter, alert, channels, deliveries,
                   sendResult>>
    /\ UNCHANGED analyzerVars
    /\ UNCHANGED dmVars
    /\ UNCHANGED gitVars
    /\ UNCHANGED consoleVars

\* sendSecurityAlert(alert): the three send functions are called in turn,
\* each running up to its first await
SendSecurityAlert ==
    \* a manager has been constructed
    /\ verifyState \notin {"idle", "new"}
    /\ sendResult = "none"
    /\ \E a \in Alerts :
         LET mail == sendEmailAlert(a)
             push == sendBrowserNotification(a)
             slack == sendSlackAlert(a)
             states == [c \in ChannelNames |->
                          CASE c = "mail" -> mail.state
                            [] c = "push" -> push.state
                            [] OTHER -> slack.state]
         IN  /\ alert' = <<a>>
             /\ channels' = states
             /\ deliveries' = deliveries \o mail.attempts \o push.attempts
                                         \o slack.attempts
             /\ sendResult' = "pending"
    /\ UNCHANGED <<notifyConfig, emailTransporter, verifyState>>
    /\ UNCHANGED analyzerVars
    /\ UNCHANGED dmVars
    /\ UNCHANGED gitVars
    /\ UNCHANGED consoleVars

\* a delivery in flight settles
DeliverySettles ==
    /\ \E c \in ChannelNames, outcome \in DeliveryOutcomes :
         /\ channels[c] = "awaiting"
         /\ channels' = [channels EXCEPT ![c] = outcome]
    /\ UNCHANGED <<notifyConfig, emailTransporter, verifyState, alert, deliveries,
                   sendResult>>
    /\ UNCHANGED analyzerVars
    /\ UNCHANGED dmVars
    /\ UNCHANGED gitVars
    /\ UNCHANGED consoleVars

\* the Promise.all of sendSecurityAlert settles
SendSettles ==
    /\ sendResult = "pending"
    /\ PromiseAll(channels) # "pending"
    /\ sendResult' = PromiseAll(channels)
    /\ UNCHANGED <<notifyConfig, emailTransporter, verifyState, alert, channels,
                   deliveries>>
    /\ UNCHANGED analyzerVars
    /\ UNCHANGED dmVars
    /\ UNCHANGED gitVars
    /\ UNCHANGED consoleVars

NotifyNext ==
    Construct \/ VerifySettles \/ SendSecurityAlert \/ DeliverySettles \/ SendSettles

SpecNotify == NotifyInit /\ [][NotifyNext]_vars

-----------------------------------------------------------------------------
(* SpecInteractive: runs of main under the interactive policy, the operator *)
(* also giving answers the prompts do not offer                             *)

InteractiveInit == Init /\ argv \subseteq {"--dry-run", "--check-outdated"}

\* ask() trims and lower-cases the answer; "x" is a letter the mode prompt
\* does not offer
UpdateUnitAsked == UpdateIteration(Choices \cup {"x"}, Answers)

InteractiveNext == MainStart \/ ScanUnit \/ Report \/ UpdateUnitAsked

SpecInteractive == InteractiveInit /\ [][InteractiveNext]_vars

-----------------------------------------------------------------------------
(* SpecSubsystem: either program of the subsystem runs: a notification      *)
(* manager that sends one alert, or a run of main without --report          *)

SubsystemInit ==
    \/ NotifyInit
    \/ Init /\ argv \subseteq (Flags \ {"--report"})

SubsystemNext == NotifyNext \/ Next

SpecSubsystem == SubsystemInit /\ [][SubsystemNext]_vars

-----------------------------------------------------------------------------
(* Properties of the branch manager *)

(* C1: a merge that fails on a conflict is aborted, so the repository is    *)
(* never left with a merge in progress: after every call of                 *)
(* mergeAikidoBranch the merge state is the one before the attempt (none).  *)
C1_NeverMergeInProgress == mergeHead = <<>>

(* C12: mergeAikidoBranch runs `git merge` only while the branch checked    *)
(* out is main or develop; when the operator declines the switch on another *)
(* branch, no merge is executed.                                            *)
C12_MergeOnIntegrationBranchOnly ==
    \A i \in DOMAIN mergeLog :
        mergeLog[i].executed => mergeLog[i].on \in {"main", "develop"}

\* the local branches the repository starts with
InitialLocalBranches == {b \in SecurityBranches : Head(b) # "origin"}

\* the local branches the calls so far have deleted
DeletedBranches ==
    {mergeLog[i].cleanup[1].name :
        i \in {k \in DOMAIN mergeLog : /\ mergeLog[k].cleanup # <<>>
                                        /\ mergeLog[k].cleanup[1].ok}}

(* C33: mergeAikidoBranch attempts a deletion only after a merge that       *)
(* succeeded and only when the operator answered 'y', as `git branch -d` on *)
(* the local name; a deletion that fails leaves the call's result TRUE and  *)
(* the merge in place, and no other local branch ever disappears.           *)
C33_CleanupIsOptionalLocalAndNonFatal ==
    /\ \A i \in DOMAIN mergeLog :
          LET call == mergeLog[i]
          IN  /\ call.cleanup # <<>> =>
                    /\ call.deleteBranch = "y"
                    /\ call.executed /\ call.ret
                    /\ call.cleanup[1].command = "git branch -d"
                    /\ call.cleanup[1].name = WithoutOrigin(call.branch)
                    /\ call.branch \in mergedInto[call.on]
              /\ (call.ret /\ call.deleteBranch = "y") => call.cleanup # <<>>
    /\ localBranches = InitialLocalBranches \ DeletedBranches

\* the merge of a remote-only branch succeeded, the operator asked for the
\* deletion, and `git branch -d` failed
C33_Witness ==
    \E i \in DOMAIN mergeLog :
        /\ mergeLog[i].ret
        /\ mergeLog[i].cleanup # <<>>
        /\ ~mergeLog[i].cleanup[1].ok
        /\ mergeLog[i].branch \in mergedInto[mergeLog[i].on]

(* C34: a call of mergeAikidoBranch in which the operator does not answer   *)
(* 'y' to `Proceed with merge?` runs no merge and leaves the branch checked *)
(* out as it was when the call started, also when the operator had agreed   *)
(* to switch to main.                                                       *)
C34_CancelledMergeChangesNothing ==
    \A i \in DOMAIN mergeLog :
        mergeLog[i].confirmMerge # "y" =>
            /\ ~mergeLog[i].executed
            /\ mergeLog[i].on = mergeLog[i].from

-----------------------------------------------------------------------------
(* Properties of the branch listing and of the console *)

Occurrences(branches, b) == Cardinality({i \in DOMAIN branches : branches[i] = b})

\* the source of a branch by precedence of the markers in its name
SourceByPrecedence(b) ==
    IF Includes(b, <<"aikido">>) THEN "scanner-bot"
    ELSE IF Includes(b, <<"dependabot">>) THEN "dependency-bot"
    ELSE "other-security"

\* the group of a listing that shows the branches of a source
GroupOf(l, source) ==
    CASE source = "scanner-bot" -> l.aikidoBranches
      [] source = "dependency-bot" -> l.dependabotBranches
      [] OTHER -> l.otherSecurityBranches

Sources == {"scanner-bot", "dependency-bot", "other-security"}

(* C11: in the listing of listSecurityBranches and in the list loaded by    *)
(* loadSecurityBranches every branch appears under exactly one source, the  *)
(* one its name gives by precedence: scanner-bot marker, else               *)
(* dependency-bot marker, else other-security.                              *)
C11_ExactlyOneSource ==
    /\ \A i \in DOMAIN listing : \A j \in DOMAIN listing[i].allBranches :
         LET b == listing[i].allBranches[j]
         IN  \A source \in Sources :
                Occurrences(GroupOf(listing[i], source), b)
                    = (IF source = SourceByPrecedence(b) THEN 1 ELSE 0)
    /\ \A i \in DOMAIN securityBranches :
         securityBranches[i].type
             = (CASE SourceByPrecedence(securityBranches[i].name) = "scanner-bot"
                       -> "aikido"
                  [] SourceByPrecedence(securityBranches[i].name) = "dependency-bot"
                       -> "dependabot"
                  [] OTHER -> "security")

\* the loaded branches autoMergeSafeBranches may merge unasked: type
\* dependabot, or a name containing the patch marker
AutoMergeCandidates ==
    SelectSeq(securityBranches,
        LAMBDA b : b.type = "dependabot" \/ Includes(b.name, <<"patch">>))

(* C13: the branches a call of autoMergeSafeBranches attempts to merge are  *)
(* exactly the loaded branches of type dependabot or with a name containing *)
(* 'patch', each once and in the order loaded.                              *)
C13_AutoMergeOnlySafe ==
    [][autoMerged' # autoMerged =>
          /\ Len(autoMerged') = Len(AutoMergeCandidates)
          /\ \A i \in DOMAIN autoMerged' :
                 autoMerged'[i].branch = AutoMergeCandidates[i].name]_vars

\* an auto-merge ran on a loaded list holding a branch that is no candidate
C13_Witness ==
    /\ autoMerged # <<>>
    /\ Len(autoMerged) = Len(AutoMergeCandidates)
    /\ \E i \in DOMAIN securityBranches :
         /\ securityBranches[i].type # "dependabot"
         /\ ~Includes(securityBranches[i].name, <<"patch">>)

(* C38: every merge autoMergeSafeBranches runs is run while main or develop  *)
(* is checked out; a remediation branch is never merged into another        *)
(* branch that happens to be checked out.                                   *)
C38_AutoMergeOnIntegrationBranchOnly ==
    \A i \in DOMAIN autoMerged : autoMerged[i].on \in {"main", "develop"}

(* C39: every merge of the loop of autoMergeSafeBranches starts on a        *)
(* working tree with no merge in progress, also after the merge of the      *)
(* candidate before it failed.                                              *)
C39_AutoMergeStartsClean ==
    \A i \in DOMAIN autoMerged : ~autoMerged[i].inProgress

(* C21: in the main-menu loop every option other than quit brings the      *)
(* session back to the menu prompt, and the session leaves the menu only    *)
(* when the operator chose quit.                                            *)
C21_MenuLoopEndsOnlyOnQuit ==
    [][consolePc = "menu" =>
          IF menuChoice' = "quit" THEN consolePc' = "closed"
          ELSE consolePc' = "menu"]_vars

\* the vulnerabilities the two sources hold: the report's, then the audit's
YieldedFixes ==
    LET reported == IF reportSource # <<>> /\ reportSource[1].kind = "json"
                    THEN reportSource[1].data ELSE <<>>
        audited == IF auditSource.stdout.kind = "json"
                   THEN auditSource.stdout.data ELSE <<>>
        fix(f, from) == [ type |-> from, severity |-> f.severity,
                          package |-> f.package, fixAvailable |-> f.fixAvailable,
                          source |-> from ]
    IN  [i \in DOMAIN reported |-> fix(reported[i], "aikido")]
        \o [i \in DOMAIN audited |-> fix(audited[i], "npm")]

\* the remote branches of the three families, or none when git fails
YieldedBranches ==
    { <<>>,
      LET kept == SelectSeq(remoteBranches,
                      LAMBDA b : \E w \in {"security", "aikido", "dependabot"} :
                                     Includes(b, <<w, "/">>))
      IN  [i \in DOMAIN kept |-> WithoutOrigin(kept[i])] }

(* C22: a refresh from the main menu leaves pendingFixes holding exactly    *)
(* the vulnerabilities the sources hold at that time and securityBranches   *)
(* exactly the branches of the repository, whatever the session held        *)
(* before; nothing accumulates over repeated refreshes.                     *)
C22_RefreshRebuildsState ==
    [][(consolePc = "menu" /\ menuChoice' = "loadSecurityData") =>
          /\ pendingFixes' = YieldedFixes
          /\ [i \in DOMAIN securityBranches' |-> securityBranches'[i].name]
                 \in YieldedBranches]_vars

\* the place of a severity in the order critical > high > moderate > low
SeverityRank(severity) ==
    CASE severity = "critical" -> 4
      [] severity = "high" -> 3
      [] severity = "moderate" -> 2
      [] severity = "low" -> 1
      [] OTHER -> 0

(* C31: the detail view lists the loaded vulnerabilities by severity in the *)
(* order critical > high > moderate > low: once showVulnerabilities has     *)
(* listed them, no vulnerability of a lower severity stands before one of   *)
(* a higher severity.                                                       *)
C31_ListedBySeverity ==
    [][(consolePc = "menu" /\ menuChoice' = "showVulnerabilities") =>
          \A i \in DOMAIN pendingFixes' : \A j \in DOMAIN pendingFixes' :
              i < j => SeverityRank(pendingFixes'[i].severity)
                           >= SeverityRank(pendingFixes'[j].severity)]_vars

(* C32: while the main menu is shown, the four severity counts of the       *)
(* summary add up to the number of loaded vulnerabilities whose severity is *)
(* critical, high, moderate or low.                                         *)
C32_SummaryCountsEveryFinding ==
    consolePc = "menu" =>
        LET counts == printSecuritySummary(pendingFixes)
        IN  counts.Critical + counts.High + counts.Medium + counts.Low
              = Cardinality({i \in DOMAIN pendingFixes :
                    pendingFixes[i].severity
                        \in {"critical", "high", "moderate", "low"}})

-----------------------------------------------------------------------------
(* Properties of the notification manager *)

AttemptsOn(channel) ==
    Cardinality({i \in DOMAIN deliveries : deliveries[i].channel = channel})

(* C14: the channels of sendSecurityAlert are independent.  Once the alert  *)
(* is handed over, every usable channel has its delivery attempt whatever   *)
(* becomes of the others, and the promise of sendSecurityAlert is never     *)
(* rejected: with no delivery left in flight it is fulfilled.               *)
C14_ChannelsIndependent ==
    sendResult # "none" =>
        /\ sendResult # "rejected"
        /\ emailTransporter => AttemptsOn("mail") = 1
        /\ (notifyConfig.slackEnabled /\ notifyConfig.webhook)
               => AttemptsOn("slack") = 1
        /\ notifyConfig.browserEnabled => channels["push"] = "prepared"
        /\ (\A c \in ChannelNames : channels[c] # "awaiting")
               => PromiseAll(channels) = "fulfilled"

\* the alert went out on all three channels; the mail was refused, the
\* webhook delivered, and sendSecurityAlert completed
C14_Witness ==
    /\ sendResult = "fulfilled"
    /\ channels["mail"] = "failed"
    /\ channels["push"] = "prepared"
    /\ channels["slack"] = "sent"

(* C15: a mail goes to the admin and every team recipient when the alert is *)
(* critical, and to the admin alone for every other severity.               *)
C15_RecipientRouting ==
    \A i \in DOMAIN deliveries :
        deliveries[i].channel = "mail" =>
            deliveries[i].to =
                (IF deliveries[i].severity = "critical"
                 THEN <<Admin>> \o notifyConfig.team
                 ELSE <<Admin>>)

\* a critical alert was mailed to the admin and a team of two
C15_Witness ==
    \E i \in DOMAIN deliveries :
        /\ deliveries[i].channel = "mail"
        /\ deliveries[i].severity = "critical"
        /\ Len(deliveries[i].to) = 3

(* C26: a channel that is enabled without its required configuration is    *)
(* treated as disabled.  With mail enabled and no SMTP credentials, or the  *)
(* webhook channel enabled and no webhook URL, sendSecurityAlert skips that *)
(* channel and attempts no delivery on it, its promise is never rejected,   *)
(* and every other enabled channel still has its attempt.                   *)
C26_MisconfiguredChannelDegrades ==
    sendResult # "none" =>
        /\ sendResult # "rejected"
        /\ (notifyConfig.emailEnabled /\ ~notifyConfig.credentials) =>
              /\ channels["mail"] = "skipped"
              /\ AttemptsOn("mail") = 0
              /\ (notifyConfig.slackEnabled /\ notifyConfig.webhook)
                     => AttemptsOn("slack") = 1
              /\ notifyConfig.browserEnabled => channels["push"] = "prepared"
        /\ (notifyConfig.slackEnabled /\ ~notifyConfig.webhook) =>
              /\ channels["slack"] = "skipped"
              /\ AttemptsOn("slack") = 0
              /\ emailTransporter => AttemptsOn("mail") = 1
              /\ notifyConfig.browserEnabled => channels["push"] = "prepared"

\* mail is enabled without credentials: the alert skipped the mail, was
\* posted to the webhook and prepared for the browser, and completed
C26_Witness ==
    /\ sendResult = "fulfilled"
    /\ notifyConfig.emailEnabled /\ ~notifyConfig.credentials
    /\ channels["mail"] = "skipped"
    /\ AttemptsOn("slack") = 1
    /\ channels["push"] = "prepared"

(* C40: a mail is handed to the transporter only when the verification the *)
(* constructor started has completed successfully, never while it is still  *)
(* pending and never after it failed.                                       *)
C40_MailOnlyThroughVerifiedTransporter ==
    \A i \in DOMAIN deliveries :
        deliveries[i].channel = "mail" => deliveries[i].verify = "verified"

-----------------------------------------------------------------------------
(* Properties of the Manifest Scanner *)

(* C2: when the audit or the outdated command exits non-zero having printed *)
(* parsable output, scanVulnerabilities and checkOutdatedPackages return    *)
(* what that output lists.                                                  *)
C2_NonZeroExitIsParsed ==
    \A i \in DOMAIN scanCall :
        (scanCall[i].proc.status # 0 /\ scanCall[i].proc.stdout.kind = "json")
            => scanCall[i].result = scanCall[i].proc.stdout.data

-----------------------------------------------------------------------------
(* Properties of a run of main *)

Units == {packagePaths[i] : i \in DOMAIN packagePaths}

\* the manifest the unit had when the run started
InitialManifest(unit) ==
    CASE unit = "root" -> RootManifest
      [] unit = "client" -> ClientManifest
      [] OTHER -> ServerManifest

ManifestFields == {"dependencies", "devDependencies"}

\* the units the update loop has written an updated line for
UpdatedUnits == {updatedLog[i].unit : i \in DOMAIN updatedLog}

Would(what, unit) == \E i \in DOMAIN testLog : testLog[i] = [would |-> what, unit |-> unit]

(* C3: under --dry-run a run writes no manifest and runs no `npm install`,  *)
(* whatever the scans returned, the policy and the operator's answers; the  *)
(* manifests on disk stay as they were and each unit with updates has its   *)
(* write and its install in the dry-run log instead.                        *)
C3_DryRunNoManifestWriteNoInstall ==
    isDryRun =>
        /\ \A i \in DOMAIN fsLog :
               ~(fsLog[i].op = "writeFile" /\ fsLog[i].path \in Units)
        /\ \A i \in DOMAIN commands : commands[i].command # "npm install"
        /\ \A unit \in DOMAIN manifestFiles :
               manifestFiles[unit] = InitialManifest(unit)
        /\ \A unit \in UpdatedUnits : Would("update", unit) /\ Would("install", unit)

\* a finished dry run that applied updates to a unit, in memory only
C3_Witness ==
    /\ isDryRun
    /\ pc.at = "done"
    /\ updatedLog # <<>>
    /\ \E unit \in UpdatedUnits : Would("update", unit) /\ Would("install", unit)

(* C4: under --dry-run no filesystem write of any kind succeeds during a    *)
(* run, --report included: neither the report file nor the reports          *)
(* directory is created.                                                    *)
C4_DryRunNoFilesystemWrite ==
    isDryRun => \A i \in DOMAIN fsLog : ~fsLog[i].ok

\* the scan of the unit listed an advisory of an allow-listed severity for
\* the package
AllowListed(unit, package) ==
    \E j \in DOMAIN scanResults[unit].vulnerabilities :
        /\ scanResults[unit].vulnerabilities[j].module_name = package
        /\ scanResults[unit].vulnerabilities[j].severity
               \in SECURITY_CONFIG.autoUpdateLevels

(* C5: under the Auto policy every constraint rewritten is rewritten for a  *)
(* vulnerability whose severity is critical or high and whose package is    *)
(* not on the exclusion list; this holds for the updates applied and for    *)
(* the manifests left on disk.                                              *)
C5_AutoPolicyAllowListOnly ==
    isAutoUpdate =>
        /\ \A i \in DOMAIN updatedLog :
               /\ updatedLog[i].update.type = "security"
               /\ updatedLog[i].update.severity \in SECURITY_CONFIG.autoUpdateLevels
               /\ updatedLog[i].update.package \notin excludePackages
        /\ \A unit \in DOMAIN manifestFiles : \A field \in ManifestFields :
             \A package \in DOMAIN manifestFiles[unit][field] :
               manifestFiles[unit][field][package]
                     # InitialManifest(unit)[field][package]
                 => package \notin excludePackages /\ AllowListed(unit, package)

\* an auto run, not dry, finished the update of a unit whose scan listed a
\* low-severity advisory with a patched version for a package it declares
C5_Witness ==
    /\ isAutoUpdate
    /\ ~isDryRun
    /\ pc.at = "done"
    /\ \E unit \in DOMAIN updateResults :
         \E j \in DOMAIN scanResults[unit].vulnerabilities :
            LET v == scanResults[unit].vulnerabilities[j]
            IN  /\ v.severity = "low"
                /\ Truthy(v.patched_versions)
                /\ \E field \in ManifestFields :
                       HasDependency(manifestFiles[unit][field], v.module_name)

\* the unit's update is done; its scan listed one critical advisory, on P with
\* patched version 2.0.0, and its outdated check one entry, for Q
C6_Scenario(unit) ==
    /\ unit \in DOMAIN updateResults
    /\ Len(scanResults[unit].vulnerabilities) = 1
    /\ scanResults[unit].vulnerabilities[1].severity = "critical"
    /\ scanResults[unit].vulnerabilities[1].module_name = "P"
    /\ scanResults[unit].vulnerabilities[1].patched_versions = "2.0.0"
    /\ DOMAIN scanResults[unit].outdated = {"Q"}

ManifestWritten(unit) == \E i \in DOMAIN fsLog : fsLog[i] = WriteCall(unit, TRUE)

(* C6: under the Auto policy, for a unit with one critical vulnerability on *)
(* P (patched 2.0.0) and an outdated entry for Q, the update applied is the *)
(* one of P to 2.0.0: once the manifest is written every constraint of P is *)
(* 2.0.0, and the constraints of Q are the ones the run started with.       *)
C6_AutoUpdatesOnlyCritical ==
    \A unit \in DOMAIN manifestFiles :
        (isAutoUpdate /\ "P" \notin excludePackages /\ C6_Scenario(unit)) =>
            /\ \A i \in DOMAIN updatedLog :
                   updatedLog[i].unit = unit =>
                       /\ updatedLog[i].update.package = "P"
                       /\ updatedLog[i].version = "2.0.0"
            /\ \A field \in ManifestFields :
                 /\ "Q" \in DOMAIN manifestFiles[unit][field] =>
                        manifestFiles[unit][field]["Q"]
                            = InitialManifest(unit)[field]["Q"]
                 /\ ("P" \in DOMAIN manifestFiles[unit][field] /\ ManifestWritten(unit))
                        => manifestFiles[unit][field]["P"] = "2.0.0"
            /\ unit \in UpdatedUnits

\* such a unit, its manifest written: P went from 1.0.0 to 2.0.0
C6_Witness ==
    \E unit \in DOMAIN manifestFiles : \E field \in ManifestFields :
        /\ isAutoUpdate
        /\ C6_Scenario(unit)
        /\ ManifestWritten(unit)
        /\ "P" \in DOMAIN manifestFiles[unit][field]
        /\ InitialManifest(unit)[field]["P"] = "1.0.0"
        /\ manifestFiles[unit][field]["P"] = "2.0.0"

\* the scan of the unit returned a vulnerability or an outdated entry
HasFindings(unit) ==
    /\ unit \in DOMAIN scanResults
    /\ \/ Len(scanResults[unit].vulnerabilities) > 0
       \/ Cardinality(DOMAIN scanResults[unit].outdated) > 0

FailedUnits == {errorLog[i].unit : i \in DOMAIN errorLog}

\* the units the update loop has gone past
UnitsPassed ==
    CASE pc.at = "update" -> {packages[i] : i \in 1..(pc.i - 1)}
      [] pc.at = "done" /\ ~isHelp /\ ~scanOnly ->
             {packages[i] : i \in DOMAIN packages}
      [] OTHER -> {}

(* C16: in the update loop of main a unit whose manifest write or whose     *)
(* npm install failed has FALSE as the result of its update, and            *)
(* updateDependencies has been called for every unit with findings the loop *)
(* has gone past, whatever the earlier units' updates returned; a run that  *)
(* got into the update loop ends with the loop finished.                    *)
C16_FailureDoesNotStopLaterUnits ==
    /\ \A unit \in FailedUnits :
           unit \in DOMAIN updateResults /\ ~updateResults[unit]
    /\ \A unit \in UnitsPassed : HasFindings(unit) <=> unit \in DOMAIN updateResults
    /\ (pc.at = "done" /\ updateResults # <<>>) =>
           \A i \in DOMAIN packages : packages[i] \in UnitsPassed

\* the install of the first unit failed and the second unit, which had
\* findings, has been processed
C16_Witness ==
    /\ pc.at = "done"
    /\ Len(packages) = 2
    /\ packages[1] \in FailedUnits
    /\ ManifestWritten(packages[1])
    /\ ~updateResults[packages[1]]
    /\ HasFindings(packages[2])
    /\ packages[2] \in DOMAIN updateResults

\* the manifest after the constraints the lines name are set, in order
RECURSIVE Replay(_, _)
Replay(manifest, lines) ==
    IF lines = <<>> THEN manifest
    ELSE Replay([manifest EXCEPT ![Head(lines).field][Head(lines).update.package]
                                     = Head(lines).version],
                Tail(lines))

LinesOf(unit) == SelectSeq(updatedLog, LAMBDA l : l.unit = unit)

ManifestWrites(unit) ==
    SelectSeq(fsLog, LAMBDA c : c.op = "writeFile" /\ c.path = unit)

InstallsIn(unit) == SelectSeq(commands, LAMBDA c : c = Command("npm install", unit))

(* C17: a call of applyUpdates writes the unit's manifest at most once, and *)
(* the manifest on disk is either the one the call found or, once written,  *)
(* that one with every constraint the call set in memory; no other unit's   *)
(* manifest changes.                                                        *)
C17_ManifestWrittenOnceAfterAllEntries ==
    \A unit \in DOMAIN manifestFiles :
        /\ Len(ManifestWrites(unit)) <= 1
        /\ manifestFiles[unit] =
               IF ManifestWritten(unit)
               THEN Replay(InitialManifest(unit), LinesOf(unit))
               ELSE InitialManifest(unit)
        /\ (applyCall # <<>> /\ applyCall[1].unit # unit) =>
               ManifestWrites(unit) = <<>>

\* a call that set two different constraints and wrote the manifest
C17_Witness ==
    /\ applyCall # <<>>
    /\ ManifestWritten(applyCall[1].unit)
    /\ Len(LinesOf(applyCall[1].unit)) >= 2
    /\ manifestFiles[applyCall[1].unit]
           # Replay(InitialManifest(applyCall[1].unit),
                    <<LinesOf(applyCall[1].unit)[1]>>)

\* the packages the entries handed to applyUpdates name
PackagesNamed ==
    IF applyCall = <<>> THEN {}
    ELSE {applyCall[1].updates[i].package : i \in DOMAIN applyCall[1].updates}

(* C36: applyUpdates adds no package to a manifest and removes none: after  *)
(* the call each unit's dependencies and devDependencies have the keys they *)
(* had, and every package the plan does not name, in the unit of the call   *)
(* as in the others, has the constraint it had.                             *)
C36_OnlyDeclaredPackagesRewritten ==
    \A unit \in DOMAIN manifestFiles : \A field \in ManifestFields :
        /\ DOMAIN manifestFiles[unit][field] = DOMAIN InitialManifest(unit)[field]
        /\ \A package \in DOMAIN InitialManifest(unit)[field] :
              (\/ applyCall = <<>>
               \/ applyCall[1].unit # unit
               \/ package \notin PackagesNamed)
                  => manifestFiles[unit][field][package]
                         = InitialManifest(unit)[field][package]

\* a plan naming Q only was applied to the root manifest, whose dependencies
\* do not hold Q: the manifest was written with Q's dev constraint changed
C36_Witness ==
    /\ applyCall # <<>>
    /\ applyCall[1].unit = "root"
    /\ PackagesNamed = {"Q"}
    /\ ManifestWritten("root")
    /\ manifestFiles["root"].devDependencies["Q"] # RootManifest.devDependencies["Q"]
    /\ "Q" \notin DOMAIN manifestFiles["root"].dependencies

\* npm install failed in the unit
InstallFailedIn(unit) ==
    \E i \in DOMAIN errorLog : errorLog[i] = [failed |-> "install", unit |-> unit]

(* C37: in applyUpdates npm install runs only after the manifest was        *)
(* written, and a failed npm install undoes nothing: the call returns FALSE *)
(* and the manifest on disk holds every constraint the call set.            *)
C37_WriteBeforeInstallAndNoRollback ==
    \A unit \in DOMAIN manifestFiles :
        /\ InstallsIn(unit) # <<>> => ManifestWritten(unit)
        /\ InstallFailedIn(unit) =>
              /\ applyCall # <<>>
              /\ applyCall[1].unit = unit
              /\ ~applyCall[1].ret
              /\ InstallsIn(unit) # <<>>
              /\ manifestFiles[unit] = Replay(InitialManifest(unit), LinesOf(unit))

\* npm install failed after the manifest was rewritten: the call returned
\* FALSE and the manifest on disk differs from the one the call found
C37_Witness ==
    /\ applyCall # <<>>
    /\ InstallFailedIn(applyCall[1].unit)
    /\ ~applyCall[1].ret
    /\ manifestFiles[applyCall[1].unit] # InitialManifest(applyCall[1].unit)

\* the constraint the package had in memory when line i was applied
ConstraintBefore(unit, i) ==
    LET l == LinesOf(unit)[i]
    IN  Replay(InitialManifest(unit), SubSeq(LinesOf(unit), 1, i - 1))
            [l.field][l.update.package]


(* C18: applyUpdates applies no entry whose target equals the constraint    *)
(* the package has at that point, and a call all of whose entries target    *)
(* the constraints the manifest already has writes no manifest and runs no  *)
(* npm install.                                                             *)
C18_NoOpElimination ==
    \A unit \in DOMAIN manifestFiles :
        /\ \A i \in DOMAIN LinesOf(unit) :
               LinesOf(unit)[i].version # ConstraintBefore(unit, i)
        /\ Replay(InitialManifest(unit), LinesOf(unit)) = InitialManifest(unit)
               => ManifestWrites(unit) = <<>> /\ InstallsIn(unit) = <<>>

\* the operator answered 'q' to a per-entry question about the unit
QuitSelection(unit) ==
    \E i \in DOMAIN prompts :
        /\ prompts[i].unit = unit
        /\ prompts[i].question = "entry"
        /\ prompts[i].answer = "q"

(* C19: once the operator has answered 'q' to a per-entry question of       *)
(* interactiveUpdate for a unit, that unit's manifest is not written, no    *)
(* npm install runs in it and its manifest is as the run found it, however  *)
(* many entries were answered 'y' before.                                   *)
C19_QuitHasNoSideEffects ==
    \A unit \in DOMAIN manifestFiles :
        QuitSelection(unit) =>
            /\ ManifestWrites(unit) = <<>>
            /\ InstallsIn(unit) = <<>>
            /\ manifestFiles[unit] = InitialManifest(unit)

\* the operator has been asked something about the unit
Prompted(unit) == \E i \in DOMAIN prompts : prompts[i].unit = unit

\* an applied entry the Auto policy would not apply: an outdated entry, or a
\* security entry whose severity is not on the allow-list
BeyondAuto(line) ==
    \/ line.update.type = "outdated"
    \/ line.update.severity \notin SECURITY_CONFIG.autoUpdateLevels

(* C20: in a run of main, an entry beyond the Auto policy (an outdated      *)
(* entry or a severity off the allow-list) is applied to a unit without a   *)
(* question to the operator about that unit only if --force-update was      *)
(* given and --auto-update was not.                                         *)
C20_ForcedOnlyByFlagAndNotWithAuto ==
    \A i \in DOMAIN updatedLog :
        (BeyondAuto(updatedLog[i]) /\ ~Prompted(updatedLog[i].unit))
            => (isForceUpdate /\ ~isAutoUpdate)

\* a finished forced run that applied an outdated entry and a low-severity
\* fix and asked nothing
C20_Witness ==
    /\ pc.at = "done"
    /\ isForceUpdate
    /\ ~isAutoUpdate
    /\ prompts = <<>>
    /\ \E i \in DOMAIN updatedLog : updatedLog[i].update.type = "outdated"
    /\ \E i \in DOMAIN updatedLog :
           /\ updatedLog[i].update.type = "security"
           /\ updatedLog[i].update.severity = "low"

\* the per-unit scores a report lists, in the order of the units
ReportedScores(report) == [i \in DOMAIN packages |-> report.packages[packages[i]].score]

(* C25: the overallScore of a written report is the mean of the per-unit    *)
(* scores it lists, rounded to the nearest integer (a half upwards); each   *)
(* listed score is the unit's security score; the overall score is within  *)
(* 0..100, and it is 100 for a report over no unit.                         *)
C25_OverallScoreIsRoundedMean ==
    /\ ReportData(<<>>, <<>>).summary.overallScore = 100
    /\ \A k \in DOMAIN reportFiles :
         LET report == reportFiles[k]
             overall == report.summary.overallScore
             n == Len(packages)
             total == SumSeq(ReportedScores(report))
         IN  /\ \A u \in DOMAIN scanResults :
                    report.packages[u].score =
                        calculateSecurityScore(scanResults[u].vulnerabilities,
                                               scanResults[u].outdated)
             /\ 2 * overall * n - 2 * total \in (1 - n)..n
             /\ overall \in 0..100

\* a written report over two units or more whose mean score is not an
\* integer and is rounded upwards
C25_Witness ==
    /\ reportFiles # <<>>
    /\ Len(packages) >= 2
    /\ LET total == SumSeq(ReportedScores(reportFiles[1]))
       IN  /\ total % Len(packages) # 0
           /\ reportFiles[1].summary.overallScore * Len(packages) > total

AllUnitsScanned == DOMAIN scanResults = {packages[i] : i \in DOMAIN packages}

(* C24: a unit whose audit could not be run, exited with an error or        *)
(* printed something that does not parse has an empty vulnerability list    *)
(* and a warning, and the scan loop goes on: it has a result for every unit *)
(* before the one it is at, and once it is left, for every unit found.      *)
C24_AuditFailureYieldsEmptyAndScanGoesOn ==
    /\ \A i \in DOMAIN warnLog :
           /\ warnLog[i].unit \in DOMAIN scanResults
           /\ scanResults[warnLog[i].unit].vulnerabilities = <<>>
    /\ pc.at = "scan" => DOMAIN scanResults = {packages[j] : j \in 1..(pc.i - 1)}
    /\ pc.at \in {"report", "update"} => AllUnitsScanned
    /\ (pc.at \in {"done", "exit1"} /\ Len(packages) > 0) => AllUnitsScanned

\* the scan loop is left; the audit of the first of two units failed and
\* the second unit's audit listed a vulnerability
C24_Witness ==
    /\ pc.at = "report"
    /\ Len(packages) = 2
    /\ \E i \in DOMAIN warnLog : warnLog[i].unit = packages[1]
    /\ scanResults[packages[2]].vulnerabilities # <<>>

(* C23: a unit whose scan returned no vulnerability and no outdated entry   *)
(* has score 100 and an empty plan under every policy; updateDependencies   *)
(* is not called for it, nothing is applied or asked for it, its manifest   *)
(* is not written and no npm install runs in it.                            *)
C23_CleanUnitScores100AndIsLeftAlone ==
    \A unit \in DOMAIN scanResults :
        ~HasFindings(unit) =>
            /\ calculateSecurityScore(scanResults[unit].vulnerabilities,
                                      scanResults[unit].outdated) = 100
            /\ \A mode \in {"auto", "force", "interactive"} :
                   PlanOf(unit, mode) = <<>>
            /\ unit \notin DOMAIN updateResults
            /\ LinesOf(unit) = <<>>
            /\ ~Prompted(unit)
            /\ ManifestWrites(unit) = <<>>
            /\ InstallsIn(unit) = <<>>
            /\ ~Would("update", unit) /\ ~Would("install", unit)
            /\ manifestFiles[unit] = InitialManifest(unit)

\* a finished run over two units: one without findings, which the update
\* loop passed, and one whose manifest was rewritten
C23_Witness ==
    /\ pc.at = "done"
    /\ \E clean \in UnitsPassed, other \in UnitsPassed :
         /\ ~HasFindings(clean)
         /\ ManifestWritten(other)

(* C28: a run of main with --scan leaves the manifests alone, whatever the   *)
(* scans returned and whatever other flags are given: the update loop is    *)
(* not entered, no plan is applied, nothing is asked, no manifest is        *)
(* written and no npm install runs, not even as a dry-run record.           *)
C28_ScanIsReadOnly ==
    scanOnly =>
        /\ pc.at # "update"
        /\ updateResults = <<>>
        /\ updatedLog = <<>>
        /\ prompts = <<>>
        /\ \A unit \in Units :
              /\ ManifestWrites(unit) = <<>>
              /\ InstallsIn(unit) = <<>>
              /\ ~Would("update", unit) /\ ~Would("install", unit)
        /\ \A unit \in DOMAIN manifestFiles :
              manifestFiles[unit] = InitialManifest(unit)

\* a run with --scan and --force-update, not a dry run, has finished and a
\* scan of it returned findings
C28_Witness ==
    /\ pc.at = "done"
    /\ scanOnly /\ isForceUpdate /\ ~isDryRun
    /\ \E unit \in DOMAIN scanResults : HasFindings(unit)

\* the scan of the unit returned vulnerabilities, none of them with a
\* patched version, and no outdated entry
OnlyUnpatchable(unit) ==
    /\ scanResults[unit].vulnerabilities # <<>>
    /\ \A i \in DOMAIN scanResults[unit].vulnerabilities :
           ~Truthy(scanResults[unit].vulnerabilities[i].patched_versions)
    /\ DOMAIN scanResults[unit].outdated = {}

(* C29: the plan updateDependencies builds for a unit has a security entry  *)
(* only for a vulnerability with a patched version, never one whose patched *)
(* is 'none'; a unit whose vulnerabilities all lack a patched version has   *)
(* an empty plan, so the operator is asked nothing about it.                *)
C29_PlanOmitsUnpatchable ==
    \A unit \in DOMAIN scanResults :
        /\ \A mode \in {"auto", "force", "interactive"} :
               \A i \in DOMAIN PlanOf(unit, mode) :
                   PlanOf(unit, mode)[i].type = "security" =>
                       /\ Truthy(PlanOf(unit, mode)[i].patched)
                       /\ PlanOf(unit, mode)[i].patched # "none"
        /\ OnlyUnpatchable(unit) => ~Prompted(unit)

(* C30: an outdated plan entry that is applied sets the package's           *)
(* constraint from the entry's wanted version when it has one, and from     *)
(* latest only when it has none.                                            *)
C30_OutdatedTargetsWanted ==
    \A i \in DOMAIN updatedLog :
        updatedLog[i].update.type = "outdated" =>
            LET update == updatedLog[i].update
                target == IF Truthy(update.wanted) THEN update.wanted
                          ELSE update.latest
            IN  updatedLog[i].version \in {target, "^" \o target}

\* what the operator answered to the prompts about the unit
ModeAnswers(unit) ==
    {prompts[i].answer : i \in {k \in DOMAIN prompts :
        prompts[k].unit = unit /\ prompts[k].question = "mode"}}
EntryAnswers(unit) ==
    LET asked == SelectSeq(prompts,
                     LAMBDA p : p.unit = unit /\ p.question = "entry")
    IN  [i \in DOMAIN asked |-> asked[i].answer]

\* the entries of the unit's plan the operator answered 'y' for
EntriesAccepted(unit) ==
    LET plan == PlanOf(unit, "interactive")
    IN  {plan[i] : i \in {k \in DOMAIN EntryAnswers(unit) :
                              EntryAnswers(unit)[k] = "y"}}

\* the entry names a package of the unit's manifest and carries a target
CanApply(unit, update) ==
    /\ \/ HasDependency(InitialManifest(unit).dependencies, update.package)
       \/ HasDependency(InitialManifest(unit).devDependencies, update.package)
    /\ \/ update.type = "security" /\ Truthy(update.patched)
                                    /\ update.patched # "none"
       \/ update.type = "outdated" /\ Truthy(update.latest)

\* the manifest of the unit was touched, or would have been in a dry run
UnitTouched(unit) ==
    \/ ManifestWrites(unit) # <<>>
    \/ InstallsIn(unit) # <<>>
    \/ Would("update", unit) \/ Would("install", unit)
    \/ LinesOf(unit) # <<>>

Invocations(command, unit) ==
    Cardinality({i \in DOMAIN commands : commands[i] = Command(command, unit)})

(* C27: nothing is retried.  Within one sendSecurityAlert the mail and the  *)
(* webhook channel each have at most one delivery attempt, also when the    *)
(* delivery failed; within one run of main npm audit, npm outdated and      *)
(* npm install each run at most once in a unit, also when they failed.      *)
C27_NoRetries ==
    /\ \A c \in ChannelNames : AttemptsOn(c) <= 1
    /\ \A c \in ChannelNames : channels[c] = "failed" => AttemptsOn(c) = 1
    /\ \A unit \in Units :
          \A command \in {"npm audit --json", "npm outdated --json", "npm install"} :
              Invocations(command, unit) <= 1

\* an alert whose mail and whose webhook post both failed has completed
\* with one attempt on each
C27_Witness ==
    /\ sendResult = "fulfilled"
    /\ channels["mail"] = "failed" /\ AttemptsOn("mail") = 1
    /\ channels["slack"] = "failed" /\ AttemptsOn("slack") = 1

\* a finished run in which npm install failed in a unit and ran once there
C27_InstallFailedOnce ==
    /\ pc.at = "done"
    /\ \E i \in DOMAIN errorLog :
          /\ errorLog[i].failed = "install"
          /\ Invocations("npm install", errorLog[i].unit) = 1

-----------------------------------------------------------------------------
(* Properties of the Vulnerability Analyzer *)

\* the SLA ceilings and weights as the specification states them
SlaCeiling == [critical |-> 7, high |-> 30, moderate |-> 90, low |-> 365]
SpecWeight == [critical |-> 25, high |-> 15, moderate |-> 8, low |-> 3]

Clamp(lo, hi, x) == IF x < lo THEN lo ELSE IF x > hi THEN hi ELSE x

\* the score before Math.max, as the code accumulates it
RawScore ==
    DeductVulns(100, scoreVulns) - OutdatedDeduction(Cardinality(DOMAIN scoreOutdated))

\* C7: calculateSecurityScore returns an integer in [0,100] for every
\* vulnerability list and outdated set, and exactly 100 when both are empty.
C7_ScoreInRange ==
    /\ score \in 0..100
    /\ (scoreVulns = <<>> /\ scoreOutdated = <<>>) => score = 100

\* C7 witness: the deductions exceed 100 and the result is floored at 0.
C7_Witness ==
    /\ Len(scoreVulns) > 0
    /\ RawScore < 0
    /\ score = 0

\* number of listed vulnerabilities of one severity
CountSeverity(sev) ==
    Cardinality({i \in DOMAIN scoreVulns : scoreVulns[i].severity = sev})

\* number of listed vulnerabilities older than their severity's ceiling
CountStale ==
    Cardinality({i \in DOMAIN scoreVulns :
        ElapsedHours(scoreVulns[i]) \div 24 > SlaCeiling[scoreVulns[i].severity]})

ExpectedScore ==
    Clamp(0, 100,
          100
          - (  SpecWeight.critical * CountSeverity("critical")
             + SpecWeight.high * CountSeverity("high")
             + SpecWeight.moderate * CountSeverity("moderate")
             + SpecWeight.low * CountSeverity("low"))
          - 10 * CountStale
          - Min(30, 2 * Len(scoreOutdated)))

Permuted(seq, p) == [i \in DOMAIN seq |-> seq[p[i]]]

\* C8: for vulnerabilities of the four severities and n outdated packages the
\* score is clamp[0,100](100 - sum of weights - 10 * stale - min(30, 2n)),
\* whatever the order in which the vulnerabilities are enumerated.
C8_ScoreFormula ==
    (\A i \in DOMAIN scoreVulns : scoreVulns[i].severity \in Severities) =>
        /\ score = ExpectedScore
        /\ \A p \in Permutations(DOMAIN scoreVulns) :
             calculateSecurityScore(Permuted(scoreVulns, p), scoreOutdated) = score

\* C8 witness: two vulnerabilities of different severity, one of them stale,
\* with more outdated packages than the cap of 30 points pays for.
C8_Witness ==
    /\ Len(scoreVulns) >= 2
    /\ \A i \in DOMAIN scoreVulns : scoreVulns[i].severity \in Severities
    /\ scoreVulns[1].severity # scoreVulns[2].severity
    /\ CountStale = 1
    /\ Len(scoreOutdated) > 15
    /\ score > 0

\* C9: adding one more vulnerability, of any severity, to the list never
\* increases the score.
C9_ScoreMonotone ==
    [][Len(scoreVulns') > Len(scoreVulns) => score' <= score]_vars

\* C9 witness: a full list of vulnerabilities, a low-severity one among them,
\* whose additions brought the score below 100 without reaching the floor.
C9_Witness ==
    /\ Len(scoreVulns) = MaxVulns
    /\ \E i \in DOMAIN scoreVulns : scoreVulns[i].severity = "low"
    /\ score < 100
    /\ score > 0

\* C10: for the four severities, isStale holds exactly when ageInDays is
\* strictly greater than the severity's SLA ceiling.
C10_StaleIffOverCeiling ==
    \A i \in DOMAIN analysis :
        LET in == analysis[i].input
            r  == analysis[i].result
        IN  in.severity \in Severities =>
              /\ r.ageInDays = ElapsedHours(in) \div 24
              /\ r.isStale <=> (r.ageInDays > SlaCeiling[in.severity])

\* C10 witness: a critical advisory whose age equals the ceiling of 7 days
\* was analyzed and is not stale.
C10_Witness ==
    /\ analysis # <<>>
    /\ analysis[1].input.severity = "critical"
    /\ analysis[1].result.ageInDays = 7
    /\ ~analysis[1].result.isStale

=============================================================================
